---------------------------- MODULE Spec2Model ----------------------------
(***************************************************************************)
(* Data layer of the GSM relay companion app: the device registry          *)
(* (utils/deviceStorage), and the backup / restore engine (device-add.tsx), *)
(* both over the AsyncStorage key-value store.                             *)
(*                                                                         *)
(* Text (a JavaScript string) is a sequence of one-character strings, so   *)
(* that JSON.parse, JSON.stringify, trim and indexOf are computed on the   *)
(* characters as the runtime computes them.  A JavaScript value is a       *)
(* tagged record (JNull, JBool, JNum, JStr, JArr, JObj, JUndefined).       *)
(***************************************************************************)
EXTENDS Integers, Sequences, FiniteSets, TLC

(***************************************************************************)
(* JavaScript values                                                       *)
(***************************************************************************)
JUndefined == [t |-> "undefined"]
JNull      == [t |-> "null"]
JBool(b)   == [t |-> "bool", b |-> b]
JNum(n)    == [t |-> "num", n |-> n]
JStr(s)    == [t |-> "str", s |-> s]
JArr(a)    == [t |-> "arr", a |-> a]
\* an object is the sequence of its own enumerable properties, in property order
JObj(o)    == [t |-> "obj", o |-> o]

\* ToBoolean: undefined, null, false, 0 and "" are falsy, everything else truthy
Truthy(v) ==
    CASE v.t = "undefined" -> FALSE
      [] v.t = "null"      -> FALSE
      [] v.t = "bool"      -> v.b
      [] v.t = "num"       -> v.n # 0
      [] v.t = "str"       -> v.s # << >>
      [] OTHER             -> TRUE

\* the typeof operator (typeof null and typeof [] are both 'object')
TypeOf(v) ==
    CASE v.t = "undefined" -> "undefined"
      [] v.t = "bool"      -> "boolean"
      [] v.t = "num"       -> "number"
      [] v.t = "str"       -> "string"
      [] OTHER             -> "object"

Digits == <<"0", "1", "2", "3", "4", "5", "6", "7", "8", "9">>
DigitChars == {Digits[d] : d \in 1..10}
IsDigit(c) == c \in DigitChars
DigitVal(c) == (CHOOSE d \in 1..10 : Digits[d] = c) - 1

RECURSIVE DigitsOf(_)
\* Number.prototype.toString for a non-negative integer
DigitsOf(n) == IF n < 10 THEN <<Digits[n + 1]>>
               ELSE DigitsOf(n \div 10) \o <<Digits[(n % 10) + 1]>>

RECURSIVE NumOf(_)
NumOf(s) == IF s = << >> THEN 0
            ELSE 10 * NumOf(SubSeq(s, 1, Len(s) - 1)) + DigitVal(s[Len(s)])

\* a property key that is a canonical array index ("0", "7", "12", not "07")
IsIndexKey(k) ==
    /\ Len(k) > 0
    /\ \A i \in 1..Len(k) : IsDigit(k[i])
    /\ (Len(k) > 1 => k[1] # "0")

HasKey(o, k) == \E i \in 1..Len(o) : o[i].k = k

\* [[Get]]: the value of property k of an object, undefined when it has none
GetProp(v, k) ==
    IF v.t = "obj" /\ HasKey(v.o, k)
    THEN v.o[CHOOSE i \in 1..Len(v.o) : v.o[i].k = k].v
    ELSE JUndefined

\* the number of array-index keys of o that are numerically below the index key k
IndexKeysBelow(o, k) ==
    Cardinality({i \in 1..Len(o) : IsIndexKey(o[i].k) /\ NumOf(o[i].k) < NumOf(k)})

InsertAt(o, n, p) == SubSeq(o, 1, n) \o <<p>> \o SubSeq(o, n + 1, Len(o))

\* [[Set]] on an ordinary object: an existing property keeps its place, a new
\* array-index key goes among the index keys in ascending order, any other new
\* key goes last (OrdinaryOwnPropertyKeys order)
ObjSet(o, k, v) ==
    IF HasKey(o, k)
    THEN [i \in 1..Len(o) |-> IF o[i].k = k THEN [k |-> k, v |-> v] ELSE o[i]]
    ELSE IF IsIndexKey(k)
         THEN InsertAt(o, IndexKeysBelow(o, k), [k |-> k, v |-> v])
         ELSE Append(o, [k |-> k, v |-> v])

(***************************************************************************)
(* JSON.stringify                                                          *)
(***************************************************************************)
RECURSIVE Flat(_)
\* the concatenation of a sequence of texts (by halves, to keep the nesting shallow)
Flat(ss) ==
    CASE Len(ss) = 0 -> << >>
      [] Len(ss) = 1 -> ss[1]
      [] OTHER -> Flat(SubSeq(ss, 1, Len(ss) \div 2))
                  \o Flat(SubSeq(ss, (Len(ss) \div 2) + 1, Len(ss)))

\* QuoteJSONString body: " and \ are escaped, every other character is kept
Quote(s) ==
    IF \A i \in 1..Len(s) : s[i] # "\"" /\ s[i] # "\\" THEN s
    ELSE Flat([i \in 1..Len(s) |->
                 IF s[i] = "\"" \/ s[i] = "\\" THEN <<"\\", s[i]>> ELSE <<s[i]>>])

RECURSIVE JSONstringify(_)
\* the elements of an array, separated by commas
StringifyElems(a) ==
    Flat([i \in 1..Len(a) |->
            JSONstringify(a[i]) \o (IF i < Len(a) THEN <<",">> ELSE << >>)])
\* the properties of an object, "key":value, separated by commas
StringifyProps(o) ==
    Flat([i \in 1..Len(o) |->
            <<"\"">> \o Quote(o[i].k) \o <<"\"", ":">> \o JSONstringify(o[i].v)
            \o (IF i < Len(o) THEN <<",">> ELSE << >>)])
JSONstringify(v) ==
    CASE v.t = "null" -> <<"n", "u", "l", "l">>
      [] v.t = "bool" -> IF v.b THEN <<"t", "r", "u", "e">> ELSE <<"f", "a", "l", "s", "e">>
      [] v.t = "num"  -> DigitsOf(v.n)
      [] v.t = "str"  -> <<"\"">> \o Quote(v.s) \o <<"\"">>
      [] v.t = "arr"  -> <<"[">> \o StringifyElems(v.a) \o <<"]">>
      [] v.t = "obj"  -> <<"{">> \o StringifyProps(v.o) \o <<"}">>

(***************************************************************************)
(* JSON.parse: a recursive-descent parser of the JSON grammar over the     *)
(* characters of the text.  A result is [ok, v, i]: whether a value was    *)
(* read, the value, and the index after it.  Numbers are the non-negative  *)
(* integers (the texts of the model hold no sign, fraction or exponent).   *)
(***************************************************************************)
ParseFail == [ok |-> FALSE, v |-> JUndefined, i |-> 0]
ParseOk(v, i) == [ok |-> TRUE, v |-> v, i |-> i]

WhiteSpace == {" ", "\n", "\t", "\r"}
IsWs(c) == c \in WhiteSpace

\* the index of the first character at or after i that is not white space
\* (Len(s) + 1 when there is none)
SkipWs(s, i) ==
    IF i > Len(s) \/ ~IsWs(s[i]) THEN i
    ELSE CHOOSE j \in i..(Len(s) + 1) :
            /\ j > Len(s) \/ ~IsWs(s[j])
            /\ \A m \in i..(j - 1) : IsWs(s[m])

Matches(s, i, w) ==
    /\ i + Len(w) - 1 <= Len(s)
    /\ \A j \in 1..Len(w) : s[i + j - 1] = w[j]

\* the number of consecutive backslashes that end just before index j, not
\* going back beyond index i
BackslashRun(s, i, j) ==
    CHOOSE b \in 0..(j - i) :
        /\ \A m \in 1..b : s[j - m] = "\\"
        /\ b = j - i \/ s[j - b - 1] # "\\"

\* the character at j (in a string literal whose content starts at i) is
\* escaped by a backslash before it
Escaped(s, i, j) == BackslashRun(s, i, j) % 2 = 1

\* the index of the first quote at or after i that is not escaped, 0 if none
ClosingQuote(s, i) ==
    (CHOOSE j \in i..(Len(s) + 1) :
        /\ j > Len(s) \/ (s[j] = "\"" /\ ~Escaped(s, i, j))
        /\ \A m \in i..(j - 1) : ~(s[m] = "\"" /\ ~Escaped(s, i, m))) % (Len(s) + 1)

\* the control characters of the model's texts
ControlChars == {"\n", "\t", "\r"}

\* the content of the literal s[i .. e - 1] with its escapes read: \" \\ and \/
\* (the texts of the model hold no other escape); a backslash before any other
\* character, or a raw control character, is a syntax error
StringContent(s, i, e, escaping) ==
    IF \/ \E m \in escaping : s[m + 1] \notin {"\"", "\\", "/"}
       \/ \E m \in i..(e - 1) : s[m] \in ControlChars
    THEN ParseFail
    ELSE ParseOk(JStr(SelectSeq([m \in 1..(e - i) |->
                                    IF (i + m - 1) \in escaping THEN "" ELSE s[i + m - 1]],
                                LAMBDA c : c # "")),
                 e + 1)

\* a literal without backslash or control character is its own content
StringUpTo(s, i, e) ==
    CASE e = 0 -> ParseFail
      [] e # 0 /\ (\A m \in i..(e - 1) : s[m] # "\\" /\ s[m] \notin ControlChars) ->
            ParseOk(JStr(SubSeq(s, i, e - 1)), e + 1)
      [] OTHER ->
            StringContent(s, i, e, {m \in i..(e - 1) : s[m] = "\\" /\ ~Escaped(s, i, m)})

\* a string literal; s[i] is the character after the opening quote, and the
\* literal ends at the first quote that is not escaped
ScanString(s, i) == StringUpTo(s, i, ClosingQuote(s, i))

\* the index after the run of digits that starts at i
ScanDigits(s, i) ==
    CHOOSE j \in i..(Len(s) + 1) :
        /\ j > Len(s) \/ ~IsDigit(s[j])
        /\ \A m \in i..(j - 1) : IsDigit(s[m])

NumberUpTo(s, i, j) == ParseOk(JNum(NumOf(SubSeq(s, i, j - 1))), j)

\* a number: 0, or a digit 1-9 followed by digits
ParseNumber(s, i) == NumberUpTo(s, i, IF s[i] = "0" THEN i + 1 ELSE ScanDigits(s, i))

RECURSIVE ParseValue(_, _)
RECURSIVE ParseElems(_, _, _)
RECURSIVE ParseMembers(_, _, _)

\* after an element: s[j] must be "]" (the array ends) or "," (another element)
ElemsSep(s, j, acc) ==
    CASE j <= Len(s) /\ s[j] = "]" -> ParseOk(JArr(acc), j + 1)
      [] j <= Len(s) /\ s[j] = "," -> ParseElems(s, SkipWs(s, j + 1), acc)
      [] OTHER -> ParseFail
ElemsAfter(s, r, acc) ==
    IF ~r.ok THEN ParseFail ELSE ElemsSep(s, SkipWs(s, r.i), Append(acc, r.v))
\* s[i] is the first character of an element; acc the elements read so far
ParseElems(s, i, acc) == ElemsAfter(s, ParseValue(s, i), acc)

\* after a member: s[j] must be "}" (the object ends) or "," (another member)
MemberSep(s, j, acc) ==
    CASE j <= Len(s) /\ s[j] = "}" -> ParseOk(JObj(acc), j + 1)
      [] j <= Len(s) /\ s[j] = "," -> ParseMembers(s, SkipWs(s, j + 1), acc)
      [] OTHER -> ParseFail
\* r is the member's value: the property is set (a repeated key overwrites)
MemberValue(s, key, r, acc) ==
    IF ~r.ok THEN ParseFail ELSE MemberSep(s, SkipWs(s, r.i), ObjSet(acc, key, r.v))
\* s[c] must be the colon after the member's key
MemberColon(s, key, c, acc) ==
    IF c > Len(s) \/ s[c] # ":" THEN ParseFail
    ELSE MemberValue(s, key, ParseValue(s, SkipWs(s, c + 1)), acc)
MemberKey(s, k, acc) ==
    IF ~k.ok THEN ParseFail ELSE MemberColon(s, k.v.s, SkipWs(s, k.i), acc)
\* s[i] must be the opening quote of a member's key; acc the properties read so far
ParseMembers(s, i, acc) ==
    IF i > Len(s) \/ s[i] # "\"" THEN ParseFail
    ELSE MemberKey(s, ScanString(s, i + 1), acc)

\* s[j] is the first character that is not white space after "{"
ObjectFrom(s, j) ==
    IF j <= Len(s) /\ s[j] = "}" THEN ParseOk(JObj(<< >>), j + 1)
    ELSE ParseMembers(s, j, << >>)
\* s[j] is the first character that is not white space after "["
ArrayFrom(s, j) ==
    IF j <= Len(s) /\ s[j] = "]" THEN ParseOk(JArr(<< >>), j + 1)
    ELSE ParseElems(s, j, << >>)

ParseValue(s, i) ==
    CASE i > Len(s) -> ParseFail
      [] i <= Len(s) /\ s[i] = "{" -> ObjectFrom(s, SkipWs(s, i + 1))
      [] i <= Len(s) /\ s[i] = "[" -> ArrayFrom(s, SkipWs(s, i + 1))
      [] i <= Len(s) /\ s[i] = "\"" -> ScanString(s, i + 1)
      [] i <= Len(s) /\ IsDigit(s[i]) -> ParseNumber(s, i)
      [] Matches(s, i, <<"n", "u", "l", "l">>) -> ParseOk(JNull, i + 4)
      [] Matches(s, i, <<"t", "r", "u", "e">>) -> ParseOk(JBool(TRUE), i + 4)
      [] Matches(s, i, <<"f", "a", "l", "s", "e">>) -> ParseOk(JBool(FALSE), i + 5)
      [] OTHER -> ParseFail

\* the text is one value, with nothing but white space after it
WholeText(s, r) ==
    IF r.ok /\ SkipWs(s, r.i) = Len(s) + 1 THEN [ok |-> TRUE, v |-> r.v]
    ELSE [ok |-> FALSE, v |-> JUndefined]

\* JSON.parse(text): [ok |-> FALSE] stands for the SyntaxError it throws
JSONparse(s) == WholeText(s, ParseValue(s, SkipWs(s, 1)))

(***************************************************************************)
(* Bounds of the model                                                     *)
(***************************************************************************)
\* addDevice is not taken once the collection holds MaxDevices records
MaxDevices == 2
\* Math.random() * 16 | 0 yields 0 .. NumDraws - 1 (of the 16 values it can)
NumDraws == 2
\* a behaviour of the backup engine makes at most MaxCalls calls
MaxCalls == 3

(***************************************************************************)
(* AsyncStorage: string keys to string values.  The store is the function  *)
(* whose domain is the set of keys present.                                *)
(***************************************************************************)
VARIABLES
    store,       \* the AsyncStorage content
    last,        \* the last completed call: [op, arg, ret, pre], pre the store before it
    backupFile,  \* the backup file shared last: its text, and the store it was taken of
    calls,       \* the number of backup, reset and restore calls so far
    migrated,    \* the number of devices created from the legacy keys so far
    inflight     \* the calls in flight, each with its position and what it has read,
                 \* and the in-memory state of the component that made them

vars == <<store, last, backupFile, calls, migrated, inflight>>

\* no call is in flight and no component state is kept
NoneInFlight == [calls |-> << >>]

\* const x = e; body: e is evaluated once and bound to x
Let(e, Body(_)) == Body(e)

\* AsyncStorage.getItem: the stored string, or null when the key is absent
getItem(st, key) == IF key \in DOMAIN st THEN JStr(st[key]) ELSE JNull
\* AsyncStorage.setItem
setItem(st, key, value) ==
    [x \in (DOMAIN st) \cup {key} |-> IF x = key THEN value ELSE st[x]]
\* AsyncStorage.getAllKeys
getAllKeys(st) == DOMAIN st
\* AsyncStorage.multiRemove
multiRemove(st, keys) == [x \in (DOMAIN st) \ keys |-> st[x]]

EmptyStore == [x \in {} |-> << >>]

(***************************************************************************)
(* Device registry (utils/deviceStorage)                                   *)
(***************************************************************************)
DEVICES_STORAGE_KEY == <<"g", "s", "m", "_", "d", "e", "v", "i", "c", "e", "s">>
ACTIVE_DEVICE_KEY ==
    <<"a", "c", "t", "i", "v", "e", "_", "d", "e", "v", "i", "c", "e", "_", "i", "d">>

K_id == <<"i", "d">>
K_name == <<"n", "a", "m", "e">>
K_unitNumber == <<"u", "n", "i", "t", "N", "u", "m", "b", "e", "r">>
K_password == <<"p", "a", "s", "s", "w", "o", "r", "d">>
K_type == <<"t", "y", "p", "e">>
K_isActive == <<"i", "s", "A", "c", "t", "i", "v", "e">>
K_relaySettings == <<"r", "e", "l", "a", "y", "S", "e", "t", "t", "i", "n", "g", "s">>
K_accessControl == <<"a", "c", "c", "e", "s", "s", "C", "o", "n", "t", "r", "o", "l">>
K_latchTime == <<"l", "a", "t", "c", "h", "T", "i", "m", "e">>

HexDigits == <<"0", "1", "2", "3", "4", "5", "6", "7", "8", "9", "a", "b", "c", "d", "e", "f">>
UUIDTemplate ==
    <<"x", "x", "x", "x", "x", "x", "x", "x", "-", "x", "x", "x", "x", "-",
      "4", "x", "x", "x", "-", "y", "x", "x", "x", "-",
      "x", "x", "x", "x", "x", "x", "x", "x", "x", "x", "x", "x">>

\* the character at i is match number MatchIndex of /[xy]/g
MatchIndex(tpl, i) == Cardinality({j \in 1..i : tpl[j] \in {"x", "y"}})

\* String.replace(/[xy]/g, fn): the k-th match is replaced using the k-th draw r:
\* r for an x, (r & 0x3 | 0x8) for the y, written in base 16
ReplaceXY(tpl, draws) ==
    [i \in 1..Len(tpl) |->
        CASE tpl[i] = "x" -> HexDigits[draws[MatchIndex(tpl, i)] + 1]
          [] tpl[i] = "y" -> HexDigits[((draws[MatchIndex(tpl, i)] % 4) + 8) + 1]
          [] OTHER -> tpl[i]]

\* draws: the values of Math.random() * 16 | 0, one per replaced character
generateUUID(draws) == ReplaceXY(UUIDTemplate, draws)

\* the draw sequences of the model: 31 draws, each in 0 .. NumDraws - 1, all equal
RandomDraws == {[k \in 1..31 |-> r] : r \in 0..(NumDraws - 1)}
UUIDs == {generateUUID(d) : d \in RandomDraws}

\* JSON.parse(deviceData) inside try: the array's elements, [] on a SyntaxError
ParsedOrEmpty(p) == IF p.ok THEN p.v.a ELSE << >>

\* the devices stored under gsm_devices ([] when the key is absent, empty or
\* not JSON), as the sequence of the array's elements
getDevices(st) ==
    Let(getItem(st, DEVICES_STORAGE_KEY), LAMBDA deviceData :
        IF Truthy(deviceData) THEN ParsedOrEmpty(JSONparse(deviceData.s)) ELSE << >>)

\* setActiveDevice that stores the id only when a stored device has it
setActiveDevice_IfStored(st, deviceId) ==
    IF \E i \in 1..Len(getDevices(st)) : GetProp(getDevices(st)[i], K_id) = JStr(deviceId)
    THEN setItem(st, ACTIVE_DEVICE_KEY, deviceId)
    ELSE st

setActiveDevice(st, deviceId) == setItem(st, ACTIVE_DEVICE_KEY, deviceId)

getActiveDeviceId(st) == getItem(st, ACTIVE_DEVICE_KEY)

\* Array.prototype.find over the devices: the first with that id, else undefined
FindDevice(devices, id) ==
    IF \E i \in 1..Len(devices) : GetProp(devices[i], K_id) = id
    THEN devices[CHOOSE i \in 1..Len(devices) :
                    /\ GetProp(devices[i], K_id) = id
                    /\ \A j \in 1..(i - 1) : GetProp(devices[j], K_id) # id]
    ELSE JUndefined

\* x || null
OrNull(x) == IF Truthy(x) THEN x ELSE JNull

getActiveDevice(st) ==
    Let(getActiveDeviceId(st), LAMBDA activeId :
        IF ~Truthy(activeId) THEN JNull
        ELSE OrNull(FindDevice(getDevices(st), activeId)))

\* addDevice with the first-device test made on the pointer instead of on the
\* collection: the new device is activated only when no pointer is stored
addDevice_ActivateIfNoPointer(st, device, draws) ==
    Let(getDevices(st), LAMBDA devices :
    Let(JObj(ObjSet(device.o, K_id, JStr(generateUUID(draws)))), LAMBDA newDevice :
    Let(setItem(st, DEVICES_STORAGE_KEY,
                JSONstringify(JArr(Append(devices, newDevice)))), LAMBDA st1 :
        [store |-> IF ~Truthy(getActiveDeviceId(st))
                   THEN setActiveDevice(st1, GetProp(newDevice, K_id).s)
                   ELSE st1,
         ret |-> newDevice])))

\* addDevice(device): [store, ret] after the call has completed
addDevice(st, device, draws) ==
    Let(getDevices(st), LAMBDA devices :
    Let(JObj(ObjSet(device.o, K_id, JStr(generateUUID(draws)))), LAMBDA newDevice :
    Let(setItem(st, DEVICES_STORAGE_KEY,
                JSONstringify(JArr(Append(devices, newDevice)))), LAMBDA st1 :
        [store |-> IF Len(devices) = 0
                   THEN setActiveDevice(st1, GetProp(newDevice, K_id).s)
                   ELSE st1,
         ret |-> newDevice])))

\* devices.map(d => d.id === device.id ? device : d)
MapReplace(devices, device) ==
    [i \in 1..Len(devices) |->
        IF GetProp(devices[i], K_id) = GetProp(device, K_id) THEN device ELSE devices[i]]

\* updateDevice that appends the record when no stored device has its id
updateDevice_Upsert(st, device) ==
    Let(getDevices(st), LAMBDA devices :
    Let(IF \E i \in 1..Len(devices) : GetProp(devices[i], K_id) = GetProp(device, K_id)
        THEN MapReplace(devices, device)
        ELSE Append(devices, device), LAMBDA updatedDevices :
        [store |-> setItem(st, DEVICES_STORAGE_KEY, JSONstringify(JArr(updatedDevices))),
         ret |-> JUndefined]))

updateDevice(st, device) ==
    Let(getDevices(st), LAMBDA devices :
    Let(MapReplace(devices, device), LAMBDA updatedDevices :
        [store |-> setItem(st, DEVICES_STORAGE_KEY, JSONstringify(JArr(updatedDevices))),
         ret |-> JUndefined]))

\* devices.filter(d => d.id !== deviceId)
FilterOut(devices, deviceId) ==
    SelectSeq(devices, LAMBDA d : GetProp(d, K_id) # JStr(deviceId))

\* deleteDevice without the re-election of an active device
deleteDevice_NoReelection(st, deviceId) ==
    Let(getDevices(st), LAMBDA devices :
    Let(FilterOut(devices, deviceId), LAMBDA updatedDevices :
        [store |-> setItem(st, DEVICES_STORAGE_KEY, JSONstringify(JArr(updatedDevices))),
         ret |-> JUndefined]))

deleteDevice(st, deviceId) ==
    Let(getDevices(st), LAMBDA devices :
    Let(FilterOut(devices, deviceId), LAMBDA updatedDevices :
    Let(setItem(st, DEVICES_STORAGE_KEY, JSONstringify(JArr(updatedDevices))), LAMBDA st1 :
    Let(getActiveDeviceId(st1), LAMBDA activeId :
        [store |-> IF activeId = JStr(deviceId) /\ Len(updatedDevices) > 0
                   THEN setActiveDevice(st1, GetProp(updatedDevices[1], K_id).s)
                   ELSE st1,
         ret |-> JUndefined]))))

(***************************************************************************)
(* Backup / restore engine (app/device-add.tsx)                            *)
(***************************************************************************)
K_data == <<"d", "a", "t", "a">>

\* String.prototype.trim: the text without its leading and trailing white space
Trim(s) ==
    IF \A i \in 1..Len(s) : IsWs(s[i]) THEN << >>
    ELSE SubSeq(s, SkipWs(s, 1),
                CHOOSE j \in 1..Len(s) :
                    ~IsWs(s[j]) /\ \A m \in (j + 1)..Len(s) : IsWs(s[m]))

\* String.prototype.indexOf(c): the zero-based place of the first c, -1 when there is none
IndexOf(s, c) ==
    IF \E i \in 1..Len(s) : s[i] = c
    THEN (CHOOSE i \in 1..Len(s) : s[i] = c /\ \A m \in 1..(i - 1) : s[m] # c) - 1
    ELSE -1

\* String.prototype.substring(from), from zero-based
Substring(s, from) == SubSeq(s, from + 1, Len(s))

\* Object.entries: the own enumerable properties of an object, the indexed
\* elements of an array, the indexed characters of a string, nothing for a
\* number or a boolean
ObjectEntries(v) ==
    CASE v.t = "obj" -> v.o
      [] v.t = "arr" -> [i \in 1..Len(v.a) |-> [k |-> DigitsOf(i - 1), v |-> v.a[i]]]
      [] v.t = "str" -> [i \in 1..Len(v.s) |-> [k |-> DigitsOf(i - 1), v |-> JStr(<<v.s[i]>>)]]
      [] OTHER       -> << >>

\* AsyncStorage.getAllKeys gives the keys in an order of the platform's choosing
KeyOrders(st) ==
    {o \in [1..Cardinality(DOMAIN st) -> DOMAIN st] :
        \A k \in DOMAIN st : \E i \in DOMAIN o : o[i] = k}

\* the forEach callback of createBackup: a falsy value is left out, a value
\* that parses as JSON is kept decoded, any other value is kept as it is
BackupPair(backupData, key, value) ==
    IF Truthy(value)
    THEN Let(JSONparse(value.s), LAMBDA p :
            ObjSet(backupData, key, IF p.ok THEN p.v ELSE value))
    ELSE backupData

RECURSIVE BackupPairs(_, _, _)
\* keyValuePairs.forEach over the pairs multiGet returns for allKeys
BackupPairs(st, allKeys, backupData) ==
    IF allKeys = << >> THEN backupData
    ELSE BackupPairs(st, Tail(allKeys),
                     BackupPair(backupData, Head(allKeys), getItem(st, Head(allKeys))))

\* createBackup, allKeys being what getAllKeys returned: the backup document
createBackup(st, allKeys) == JSONstringify(JObj(BackupPairs(st, allKeys, << >>)))

\* throw new Error(message)
Thrown(message) == [t |-> "throw", message |-> message]

\* a call that throws before it touches the store
Rejected(st, message) ==
    [store |-> st, ret |-> Thrown(message), count |-> 0, total |-> 0]

\* the body of the for loop of restoreFromBackup; acc is [store, count].  A
\* null value is passed over; a setItem that throws (key in failing) is caught
\* and the loop goes on
RestoreEntry(acc, key, value, failing) ==
    IF value.t \in {"null", "undefined"} \/ key \in failing THEN acc
    ELSE [store |-> setItem(acc.store, key,
                            IF TypeOf(value) = "string" THEN value.s
                            ELSE JSONstringify(value)),
          count |-> acc.count + 1]

RECURSIVE RestoreEntries(_, _, _)
\* for (const [key, value] of entries)
RestoreEntries(acc, entries, failing) ==
    IF entries = << >> THEN acc
    ELSE RestoreEntries(RestoreEntry(acc, Head(entries).k, Head(entries).v, failing),
                        Tail(entries), failing)

\* after the loop: nothing written throws, anything written returns true
RestoreResult(acc, total) ==
    [store |-> acc.store,
     ret   |-> IF acc.count = 0 THEN Thrown("Failed to restore any items") ELSE JBool(TRUE),
     count |-> acc.count,
     total |-> total]

\* the existing keys are removed, then the entries of dataToRestore are written
RestoreData(st, dataToRestore, failing) ==
    Let(multiRemove(st, getAllKeys(st)), LAMBDA cleared :
    Let(ObjectEntries(dataToRestore), LAMBDA entries :
        IF Len(entries) = 0
        THEN [store |-> cleared, ret |-> Thrown("No data found in backup"),
              count |-> 0, total |-> 0]
        ELSE RestoreResult(RestoreEntries([store |-> cleared, count |-> 0], entries, failing),
                           Len(entries))))

\* the object check, and the choice between backupData.data and backupData
RestoreParsed(st, p, failing) ==
    CASE ~p.ok ->
            Rejected(st, "Could not parse backup file - invalid JSON format")
      [] p.ok /\ (~Truthy(p.v) \/ TypeOf(p.v) # "object") ->
            Rejected(st, "Invalid backup data - not an object")
      [] OTHER ->
            RestoreData(st,
                        IF Truthy(GetProp(p.v, K_data)) THEN GetProp(p.v, K_data) ELSE p.v,
                        failing)

\* the text handed to JSON.parse: cleanJson from its first "{" when that is not
\* its first character
JsonToUse(cleanJson) ==
    IF IndexOf(cleanJson, "{") > 0 THEN Substring(cleanJson, IndexOf(cleanJson, "{"))
    ELSE cleanJson

\* restoreFromBackup(backupJson), failing being the keys whose setItem throws:
\* [store, ret, count, total], ret true or the error thrown, count and total
\* the numbers of the last console.log
restoreFromBackup(st, backupJson, failing) ==
    IF ~Truthy(JStr(backupJson)) \/ Len(Trim(backupJson)) < 2
    THEN Rejected(st, "Backup file is empty")
    ELSE RestoreParsed(st, JSONparse(JsonToUse(Trim(backupJson))), failing)

(***************************************************************************)
(* Callers' inputs                                                         *)
(***************************************************************************)
\* the argument handleAddDevice passes to addDevice
DeviceFields(name, unitNumber, password) ==
    JObj(<<[k |-> K_name, v |-> JStr(name)],
           [k |-> K_unitNumber, v |-> JStr(unitNumber)],
           [k |-> K_password, v |-> JStr(password)],
           [k |-> K_type, v |-> JStr(<<"C", "o", "n", "n", "e", "c", "t", "4", "v">>)],
           [k |-> K_isActive, v |-> JBool(TRUE)],
           [k |-> K_relaySettings,
            v |-> JObj(<<[k |-> K_accessControl, v |-> JStr(<<"A", "U", "T">>)],
                         [k |-> K_latchTime, v |-> JStr(<<"0", "0", "0">>)]>>)]>>)

Names == {<<"G", "a", "t", "e">>}
UnitNumbers == {<<"+", "1", "5">>}
Passwords == {<<"1", "2", "3", "4">>, <<"0", "0", "0", "7">>}

\* devices passed to addDevice
DeviceInputs == {DeviceFields(n, u, <<"1", "2", "3", "4">>) : n \in Names, u \in UnitNumbers}
\* records passed to updateDevice: any id, a changed password
DeviceUpdates ==
    {JObj(ObjSet(DeviceFields(n, u, p).o, K_id, JStr(id))) :
        n \in Names, u \in UnitNumbers, p \in Passwords, id \in UUIDs}

(***************************************************************************)
(* The registry as a state machine: each action is one awaited call        *)
(***************************************************************************)
InitLast == [op |-> "init", arg |-> JUndefined, ret |-> JUndefined, pre |-> EmptyStore]
\* no backup file has been shared
NoBackupFile == [exists |-> FALSE, text |-> << >>, of |-> EmptyStore]

\* a fresh install: nothing stored
Init ==
    /\ store = EmptyStore
    /\ last = InitLast
    /\ backupFile = NoBackupFile
    /\ calls = 0
    /\ migrated = 0
    /\ inflight = NoneInFlight

AddDevice ==
    /\ Len(getDevices(store)) < MaxDevices
    /\ \E device \in DeviceInputs, draws \in RandomDraws :
          \E r \in {addDevice(store, device, draws)} :
              /\ store' = r.store
              /\ last' = [op |-> "addDevice", arg |-> device, ret |-> r.ret, pre |-> store]
    /\ UNCHANGED <<backupFile, calls, migrated, inflight>>

UpdateDevice ==
    \E device \in DeviceUpdates :
        \E r \in {updateDevice(store, device)} :
            /\ store' = r.store
            /\ last' = [op |-> "updateDevice", arg |-> device, ret |-> r.ret, pre |-> store]
            /\ UNCHANGED <<backupFile, calls, migrated, inflight>>

DeleteDevice ==
    \E id \in UUIDs :
        \E r \in {deleteDevice(store, id)} :
            /\ store' = r.store
            /\ last' = [op |-> "deleteDevice", arg |-> JStr(id), ret |-> r.ret, pre |-> store]
            /\ UNCHANGED <<backupFile, calls, migrated, inflight>>

\* setActiveDevice with any id, stored or not
SetActiveDevice ==
    \E id \in UUIDs :
        /\ store' = setActiveDevice(store, id)
        /\ last' = [op |-> "setActiveDevice", arg |-> JStr(id), ret |-> JUndefined,
                    pre |-> store]
        /\ UNCHANGED <<backupFile, calls, migrated, inflight>>

Next == AddDevice \/ UpdateDevice \/ DeleteDevice \/ SetActiveDevice

Spec == Init /\ [][Next]_vars

\* the ids of the stored devices
DeviceIds(st) == {GetProp(getDevices(st)[i], K_id) : i \in 1..Len(getDevices(st))}

\* setActiveDevice as the home screen's handleSwitchDevice calls it: with the id of
\* a stored device
SetActiveExisting ==
    \E id \in DeviceIds(store) :
        /\ store' = setActiveDevice(store, id.s)
        /\ last' = [op |-> "setActiveDevice", arg |-> id, ret |-> JUndefined, pre |-> store]
        /\ UNCHANGED <<backupFile, calls, migrated, inflight>>

NextExisting == AddDevice \/ UpdateDevice \/ DeleteDevice \/ SetActiveExisting

\* the registry when setActiveDevice is only ever given ids of stored devices
SpecExisting == Init /\ [][NextExisting]_vars

(***************************************************************************)
(* Backup and restore as a state machine: the store holds what the app     *)
(* has written so far, the user shares a backup, resets the app, or picks  *)
(* a file to restore from                                                  *)
(***************************************************************************)
Val_Empty == << >>
Val_Digits == <<"1", "2", "3", "4">>
Val_Null == <<"n", "u", "l", "l">>
Val_Quoted == <<"\"", "x", "\"">>
Val_Word == <<"o", "n">>
\* the strings the settings screens store under a key
StoredValues == {Val_Empty, Val_Digits, Val_Null, Val_Quoted, Val_Word}
StoredKeys == {K_password, K_data}

\* the stores a backup may be taken from: any of the keys with any of the
\* values, and the registry's store after a first addDevice
BackupStores ==
    UNION {[keys -> StoredValues] : keys \in SUBSET StoredKeys}
    \cup {addDevice(EmptyStore, device, draws).store :
            device \in DeviceInputs, draws \in RandomDraws}

\* an empty file
Doc_Empty == << >>
\* text that is not JSON
Doc_NotJson == <<"x", "y">>
\* JSON that is not an object: arrays, a number, null, a string
Doc_EmptyArray == <<"[", "]">>
Doc_Array == <<"[", "1", "]">>
Doc_Number == <<"1", "2">>
Doc_Null == <<"n", "u", "l", "l">>
Doc_String == <<"\"", "a", "b", "\"">>
\* an object without entries
Doc_EmptyObject == <<"{", "}">>
\* envelopes: the data map is the data field
Doc_Envelope ==
    <<"{", "\"", "d", "a", "t", "a", "\"", ":", "{", "\"", "g", "s", "m", "_", "d",
      "e", "v", "i", "c", "e", "s", "\"", ":", "\"", "[", "]", "\"", "}", "}">>
Doc_FullEnvelope ==
    <<"{", "\"", "v", "e", "r", "s", "i", "o", "n", "\"", ":", "\"", "1", "\"", ",",
      "\"", "t", "i", "m", "e", "s", "t", "a", "m", "p", "\"", ":", "\"", "t", "\"",
      ",", "\"", "d", "a", "t", "a", "\"", ":", "{", "\"", "p", "a", "s", "s", "w",
      "o", "r", "d", "\"", ":", "1", "2", "3", "4", "}", "}">>
\* flat maps: the data map is the whole object
Doc_NullValue == <<"{", "\"", "a", "\"", ":", "n", "u", "l", "l", "}">>
Doc_NullAndString ==
    <<"{", "\"", "a", "\"", ":", "n", "u", "l", "l", ",", "\"", "b", "\"", ":", "\"",
      "x", "\"", "}">>
Doc_FlatWithData ==
    <<"{", "\"", "d", "a", "t", "a", "\"", ":", "\"", "o", "n", "\"", ",", "\"", "b",
      "\"", ":", "\"", "x", "\"", "}">>
Doc_Nested ==
    <<"{", "\"", "a", "\"", ":", "\"", "1", "\"", ",", "\"", "b", "\"", ":", "{", "\"",
      "c", "\"", ":", "[", "1", ",", "t", "r", "u", "e", "]", "}", "}">>
\* a flat map after a character that is not JSON
Doc_Prefixed == <<"x", "{", "\"", "b", "\"", ":", "\"", "x", "\"", "}">>

\* backup files of other origins
Docs ==
    {Doc_Empty, Doc_NotJson, Doc_EmptyArray, Doc_Array,
     Doc_Number, Doc_Null, Doc_String, Doc_EmptyObject,
     Doc_Envelope, Doc_FullEnvelope, Doc_NullValue, Doc_NullAndString,
     Doc_FlatWithData, Doc_Nested, Doc_Prefixed}
\* the keys whose setItem throws during a restore
WriteFailures == {{}, {<<"b">>}}

InitBackup ==
    /\ store \in BackupStores
    /\ last = InitLast
    /\ backupFile = NoBackupFile
    /\ calls = 0
    /\ migrated = 0
    /\ inflight = NoneInFlight

\* saveBackupToFile: createBackup, and the document written to the backup file
CreateBackup ==
    /\ calls < MaxCalls
    /\ \E allKeys \in KeyOrders(store) :
          \E doc \in {createBackup(store, allKeys)} :
              /\ backupFile' = [exists |-> TRUE, text |-> doc, of |-> store]
              /\ last' = [op |-> "createBackup", arg |-> JUndefined, ret |-> JStr(doc),
                          pre |-> store]
    /\ calls' = calls + 1
    /\ UNCHANGED <<store, migrated, inflight>>

\* "Reset All Settings": AsyncStorage.clear()
ResetAllSettings ==
    /\ calls < MaxCalls
    /\ store' = EmptyStore
    /\ last' = [op |-> "clear", arg |-> JUndefined, ret |-> JUndefined, pre |-> store]
    /\ calls' = calls + 1
    /\ UNCHANGED <<backupFile, migrated, inflight>>

\* the files the user may pick: the given ones, and the backup file shared before
PickedFiles == Docs \cup (IF backupFile.exists THEN {backupFile.text} ELSE {})

\* restoreFromBackup(fileContent) of a picked file, some of its writes failing
RestoreFromBackup ==
    \E backupJson \in PickedFiles, failing \in WriteFailures :
        /\ calls < MaxCalls
        /\ \E r \in {restoreFromBackup(store, backupJson, failing)} :
              /\ store' = r.store
              /\ last' = [op |-> "restoreFromBackup",
                          arg |-> [backupJson |-> backupJson, failing |-> failing],
                          ret |-> r.ret, pre |-> store,
                          count |-> r.count, total |-> r.total]
        /\ calls' = calls + 1
        /\ UNCHANGED <<backupFile, migrated, inflight>>

NextBackup == CreateBackup \/ ResetAllSettings \/ RestoreFromBackup

SpecBackup == InitBackup /\ [][NextBackup]_vars

(***************************************************************************)
(* Claims about the registry                                               *)
(***************************************************************************)
\* how many stored devices have the id
CountId(devices, id) == Cardinality({i \in 1..Len(devices) : GetProp(devices[i], K_id) = id})

\* C1: whenever the active-device pointer is present in storage it is the id
\* of a device of the collection
C1_PointerReferencesDevice ==
    (ACTIVE_DEVICE_KEY \in DOMAIN store) => getActiveDeviceId(store) \in DeviceIds(store)

\* C2: deleteDevice(id) removes the record; if id was the active device and
\* devices remain the pointer is the first remaining device; if the
\* collection is now empty the pointer is absent from storage
C2_DeleteRepairsPointer ==
    last.op = "deleteDevice" =>
        /\ getDevices(store) = FilterOut(getDevices(last.pre), last.arg.s)
        /\ (getActiveDeviceId(last.pre) = last.arg /\ Len(getDevices(store)) > 0
               => getActiveDeviceId(store) = GetProp(getDevices(store)[1], K_id))
        /\ (Len(getDevices(store)) = 0 => ACTIVE_DEVICE_KEY \notin DOMAIN store)

\* the last call deleted the device that was the active one
DeletedActive ==
    /\ last.op = "deleteDevice"
    /\ getActiveDeviceId(last.pre) = last.arg
    /\ last.arg \in DeviceIds(last.pre)

\* C3: after the active device is deleted while others remain, getActiveDevice()
\* is a device of the collection other than the deleted one; after the last
\* remaining device is deleted, getActiveDevice() is null
C3_ActiveAfterDelete ==
    /\ DeletedActive /\ Len(getDevices(store)) > 0 =>
          /\ getActiveDevice(store) # JNull
          /\ \E i \in 1..Len(getDevices(store)) : getDevices(store)[i] = getActiveDevice(store)
          /\ GetProp(getActiveDevice(store), K_id) # last.arg
    /\ last.op = "deleteDevice" /\ Len(getDevices(last.pre)) > 0
          /\ Len(getDevices(store)) = 0 => getActiveDevice(store) = JNull

\* the active one of two devices has just been deleted
C3_Witness == DeletedActive /\ Len(getDevices(store)) > 0

\* C4: addDevice on an empty collection makes the new device the active one,
\* whatever pointer was stored; on a non-empty collection the pointer is unchanged
C4_AddActivatesFirstOnly ==
    last.op = "addDevice" =>
        IF Len(getDevices(last.pre)) = 0
        THEN GetProp(getActiveDevice(store), K_id) = GetProp(last.ret, K_id)
        ELSE getActiveDeviceId(store) = getActiveDeviceId(last.pre)

\* a first device was added while a stale pointer to another id was stored
C4_Witness ==
    /\ last.op = "addDevice"
    /\ Len(getDevices(last.pre)) = 0
    /\ Truthy(getActiveDeviceId(last.pre))
    /\ getActiveDeviceId(last.pre) # GetProp(last.ret, K_id)

\* C5: after addDevice the returned id occurs exactly once in getDevices(), and
\* the collection is the previous records, unchanged, followed by the new one
C5_AddAppendsUniqueId ==
    last.op = "addDevice" =>
        /\ CountId(getDevices(store), GetProp(last.ret, K_id)) = 1
        /\ getDevices(store) = Append(getDevices(last.pre), last.ret)

(***************************************************************************)
(* Backup and restore                                                      *)
(***************************************************************************)
\* C6: createBackup followed by restoreFromBackup of the produced document on a
\* cleared store (no write failing) yields exactly the store the backup was
\* taken of: the same keys, each with its original value
C6_BackupRestoreRoundTrip ==
    (/\ last.op = "restoreFromBackup"
     /\ backupFile.exists
     /\ last.arg.backupJson = backupFile.text
     /\ last.arg.failing = {}
     /\ last.pre = EmptyStore)
    => store = backupFile.of

\* C7: a restoreFromBackup call that throws has had no effect on the store
C7_FailedRestoreHasNoEffect ==
    (last.op = "restoreFromBackup" /\ last.ret.t = "throw") => store = last.pre

\* the text is JSON, and its value is a JSON object
IsJsonObject(text) == \E p \in {JSONparse(text)} : p.ok /\ p.v.t = "obj"

\* C8: restoreFromBackup of a text that is not JSON, or whose value is not a JSON
\* object, throws and leaves the store as it was
C8_NonObjectRejectedUntouched ==
    (last.op = "restoreFromBackup" /\ ~IsJsonObject(last.arg.backupJson))
    => (last.ret.t = "throw" /\ store = last.pre)

\* a document is an envelope when it has a data field that is a map
IsEnvelope(doc) == HasKey(doc.o, K_data) /\ GetProp(doc, K_data).t = "obj"
\* the data map of a document: the data field of an envelope, else the whole object
ResolvedDataMap(doc) == IF IsEnvelope(doc) THEN GetProp(doc, K_data) ELSE doc
\* the store that holds exactly the entries of the map: a string as it is, any
\* other value as its JSON encoding
StoreOfMap(map) ==
    [key \in {map.o[i].k : i \in 1..Len(map.o)} |->
        IF GetProp(map, key).t = "str" THEN GetProp(map, key).s
        ELSE JSONstringify(GetProp(map, key))]

\* C9: after a successful restoreFromBackup of a JSON object (no write failing)
\* the store holds exactly the entries of the resolved data map, strings as they
\* are and other values JSON-encoded, and no key of the store before the call
\* unless the map has it
C9_RestoredStoreIsDataMap ==
    (/\ last.op = "restoreFromBackup"
     /\ last.ret = JBool(TRUE)
     /\ last.arg.failing = {}
     /\ IsJsonObject(last.arg.backupJson))
    => store = StoreOfMap(ResolvedDataMap(JSONparse(last.arg.backupJson).v))

\* C10: a restoreFromBackup that wrote some but not all entries of the data map
\* does not return what a complete restore returns (true)
C10_PartialRestoreIsDistinguishable ==
    (last.op = "restoreFromBackup" /\ 0 < last.count /\ last.count < last.total)
    => last.ret # JBool(TRUE)

(***************************************************************************)
(* String operations used by the screens                                   *)
(***************************************************************************)
\* sub occurs in s at position i (1-based)
OccursAt(s, sub, i) == i + Len(sub) - 1 <= Len(s) /\ SubSeq(s, i, i + Len(sub) - 1) = sub

\* s.includes(sub)
Includes(s, sub) == \E i \in 1..(Len(s) + 1) : OccursAt(s, sub, i)

\* /^\d+$/.test(s)
AllDigits(s) == Len(s) > 0 /\ \A i \in 1..Len(s) : IsDigit(s[i])

\* text.replace(/[^0-9]/g, '')
OnlyDigits(text) == SelectSeq(text, LAMBDA c : IsDigit(c))

\* s.slice(0, n)
SliceTo(s, n) == SubSeq(s, 1, IF Len(s) < n THEN Len(s) ELSE n)

(***************************************************************************)
(* Activity log store (utils/logger): the global partition, a JSON array   *)
(* of entries under app_logs, capped at the MaxLogEntries most recent      *)
(***************************************************************************)
\* the retained size of a log partition
MaxLogEntries == 1

LOGS_KEY == <<"a", "p", "p", "_", "l", "o", "g", "s">>
K_action == <<"a", "c", "t", "i", "o", "n">>
K_details == <<"d", "e", "t", "a", "i", "l", "s">>
K_success == <<"s", "u", "c", "c", "e", "s", "s">>

\* getLogs(): the stored entries ([] when the key is absent or not JSON)
getLogs(st) ==
    Let(getItem(st, LOGS_KEY), LAMBDA logData :
        IF Truthy(logData) THEN ParsedOrEmpty(JSONparse(logData.s)) ELSE << >>)

\* the entry addLog constructs (its id and timestamp are not modelled)
LogEntry(action, details, success) ==
    JObj(<<[k |-> K_action, v |-> JStr(action)],
           [k |-> K_details, v |-> JStr(details)],
           [k |-> K_success, v |-> JBool(success)]>>)

\* the n most recent entries
MostRecent(entries, n) ==
    IF Len(entries) > n THEN SubSeq(entries, Len(entries) - n + 1, Len(entries)) ELSE entries

\* addLog(action, details, success): append, then drop the oldest beyond the cap
addLog(st, action, details, success) ==
    setItem(st, LOGS_KEY,
            JSONstringify(JArr(MostRecent(
                Append(getLogs(st), LogEntry(action, details, success)), MaxLogEntries))))

(***************************************************************************)
(* Legacy single-device storage and its migration (utils/deviceStorage)    *)
(***************************************************************************)
\* the legacy keys unitNumber, password and relaySettings are spelled as the
\* record fields K_unitNumber, K_password and K_relaySettings

DefaultRelaySettings ==
    JObj(<<[k |-> K_accessControl, v |-> JStr(<<"A", "U", "T">>)],
           [k |-> K_latchTime, v |-> JStr(<<"0", "0", "0">>)]>>)

DefaultPassword == <<"1", "2", "3", "4">>

\* x || d for strings
StrOr(x, d) == IF Truthy(x) THEN x.s ELSE d

\* the device migrateFromLegacyStorage builds from the legacy values
LegacyDevice(unitNumber, password, relaySettings) ==
    JObj(<<[k |-> K_name, v |-> JStr(<<"M", "y", " ", "C", "o", "n", "n", "e", "c", "t", "4",
        "v">>)],
           [k |-> K_unitNumber, v |-> unitNumber],
           [k |-> K_password, v |-> JStr(StrOr(password, DefaultPassword))],
           [k |-> K_type, v |-> JStr(<<"C", "o", "n", "n", "e", "c", "t", "4", "v">>)],
           [k |-> K_isActive, v |-> JBool(TRUE)],
           [k |-> K_relaySettings, v |-> relaySettings]>>)

\* migrateFromLegacyStorage without the test for stored devices
migrateFromLegacyStorage_NoExistingTest(st, draws) ==
    Let(getItem(st, K_unitNumber), LAMBDA unitNumber :
    Let(getItem(st, K_password), LAMBDA password :
    Let(getItem(st, K_relaySettings), LAMBDA relaySettingsStr :
        IF ~Truthy(unitNumber) THEN [store |-> st, ret |-> FALSE]
        ELSE IF ~Truthy(relaySettingsStr)
        THEN [store |-> addDevice(st, LegacyDevice(unitNumber, password,
                                                   DefaultRelaySettings), draws).store,
              ret |-> TRUE]
        ELSE IF ~JSONparse(relaySettingsStr.s).ok THEN [store |-> st, ret |-> FALSE]
        ELSE [store |-> addDevice(st, LegacyDevice(unitNumber, password,
                                      JSONparse(relaySettingsStr.s).v), draws).store,
              ret |-> TRUE])))

\* migrateFromLegacyStorage(): [store, ret] after the call has completed; a
\* SyntaxError of JSON.parse(relaySettingsStr) is caught by the function's catch,
\* which returns false
migrateFromLegacyStorage(st, draws) ==
    Let(getItem(st, K_unitNumber), LAMBDA unitNumber :
    Let(getItem(st, K_password), LAMBDA password :
    Let(getItem(st, K_relaySettings), LAMBDA relaySettingsStr :
        IF Len(getDevices(st)) > 0 THEN [store |-> st, ret |-> FALSE]
        ELSE IF ~Truthy(unitNumber) THEN [store |-> st, ret |-> FALSE]
        ELSE IF ~Truthy(relaySettingsStr)
        THEN [store |-> addDevice(st, LegacyDevice(unitNumber, password,
                                                   DefaultRelaySettings), draws).store,
              ret |-> TRUE]
        ELSE IF ~JSONparse(relaySettingsStr.s).ok THEN [store |-> st, ret |-> FALSE]
        ELSE [store |-> addDevice(st, LegacyDevice(unitNumber, password,
                                      JSONparse(relaySettingsStr.s).v), draws).store,
              ret |-> TRUE])))

\* DeviceProvider.loadDevices: migrate, then read the devices and the active
\* device into the context; [store, migrated] after the call
loadDevices(st, draws) ==
    Let(migrateFromLegacyStorage(st, draws), LAMBDA m :
        [store |-> m.store, migrated |-> m.ret])

(***************************************************************************)
(* Screens: add device (app/device-add.tsx), legacy settings, password     *)
(* change (Step2Page)                                                      *)
(***************************************************************************)
COMPLETED_STEPS_KEY == <<"c", "o", "m", "p", "l", "e", "t", "e", "d", "S", "t", "e", "p", "s">>

\* validateForm() of the add-device screen, for a Connect4v device
validateForm(deviceName, unitNumber, password) ==
    /\ Trim(deviceName) # << >>
    /\ Trim(unitNumber) # << >>
    /\ Trim(password) # << >>
    /\ Len(password) = 4
    /\ AllDigits(password)

\* handleAddDevice(): addDevice, refreshDevices, addLog; the store is unchanged
\* when the form is not valid
handleAddDevice(st, deviceName, unitNumber, password, draws) ==
    IF ~validateForm(deviceName, unitNumber, password) THEN st
    ELSE addLog(loadDevices(addDevice(st, DeviceFields(deviceName, unitNumber, password),
                                      draws).store, draws).store,
                <<"D", "e", "v", "i", "c", "e", " ", "M", "a", "n", "a", "g", "e", "m", "e",
                    "n", "t">>, <<"A", "d", "d", "e", "d", " ", "n", "e", "w", " ", "C", "o",
                    "n", "n", "e", "c", "t", "4", "v", " ", "d", "e", "v", "i", "c", "e", ":",
                    " ">> \o deviceName, TRUE)

\* onChangeText of the legacy screens' password field
FilterPassword(text) == SliceTo(OnlyDigits(text), 4)

\* saveToLocalStorage() of the legacy settings screen: the three legacy keys,
\* written as they stand in the form
SettingsPage_saveToLocalStorage(st, unitNumber, password, relaySettings) ==
    setItem(setItem(setItem(st, K_unitNumber, unitNumber), K_password, password),
            K_relaySettings, JSONstringify(relaySettings))

\* the fields a setup screen holds once its load effect has run: those of the
\* context's active device d, else the legacy settings
ScreenFields(d, st) ==
    IF Truthy(d)
    THEN [device |-> d, unitNumber |-> GetProp(d, K_unitNumber).s,
          password |-> GetProp(d, K_password).s]
    ELSE [device |-> JNull, unitNumber |-> StrOr(getItem(st, K_unitNumber), << >>),
          password |-> StrOr(getItem(st, K_password), << >>)]

\* what Linking does with the sms: URL
Linking == {"opened", "unsupported", "error"}
\* error.message of a failed Linking call
LinkingErrorMessage == <<"U", "n", "a", "b", "l", "e", " ", "t", "o", " ", "o", "p", "e", "n",
    " ", "U", "R", "L">>

\* command.match(/\d{4}P(\d{4})/) matches at position i
PwdMatchAt(command, i) ==
    /\ i + 8 <= Len(command)
    /\ \A k \in 0..3 : IsDigit(command[i + k])
    /\ command[i + 4] = "P"
    /\ \A k \in 5..8 : IsDigit(command[i + k])

\* newPwdMatch ? newPwdMatch[1] : "****"
NewPwdOf(command) ==
    IF \E i \in 1..Len(command) : PwdMatchAt(command, i)
    THEN SubSeq(command,
                (CHOOSE i \in 1..Len(command) :
                    PwdMatchAt(command, i) /\ \A j \in 1..(i - 1) : ~PwdMatchAt(command, j)) + 5,
                (CHOOSE i \in 1..Len(command) :
                    PwdMatchAt(command, i) /\ \A j \in 1..(i - 1) : ~PwdMatchAt(command, j)) + 8)
    ELSE <<"*", "*", "*", "*">>

\* sendSMS(command) of the password-change screen: [store, ret]
Step2_sendSMS(st, unitNumber, command, linking) ==
    IF unitNumber = << >>
    THEN [store |-> addLog(st, <<"P", "a", "s", "s", "w", "o", "r", "d", " ", "C", "h", "a",
        "n", "g", "e">>, <<"F", "a", "i", "l", "e", "d", ":", " ", "G", "S", "M", " ", "r", "e",
        "l", "a", "y", " ", "n", "u", "m", "b", "e", "r", " ", "n", "o", "t", " ", "s", "e",
        "t">>, FALSE),
          ret |-> FALSE]
    ELSE IF linking = "unsupported"
    THEN [store |-> addLog(st, <<"P", "a", "s", "s", "w", "o", "r", "d", " ", "C", "h", "a",
        "n", "g", "e">>, <<"F", "a", "i", "l", "e", "d", ":", " ", "S", "M", "S", " ", "n", "o",
        "t", " ", "a", "v", "a", "i", "l", "a", "b", "l", "e", " ", "o", "n", " ", "d", "e",
        "v", "i", "c", "e">>, FALSE),
          ret |-> FALSE]
    ELSE IF linking = "error"
    THEN [store |-> addLog(st, <<"P", "a", "s", "s", "w", "o", "r", "d", " ", "C", "h", "a",
        "n", "g", "e">>, <<"E", "r", "r", "o", "r", ":", " ">> \o LinkingErrorMessage, FALSE),
          ret |-> FALSE]
    ELSE [store |-> addLog(st, <<"P", "a", "s", "s", "w", "o", "r", "d", " ", "C", "h", "a",
        "n", "g", "e">>,
                           <<"C", "h", "a", "n", "g", "e", "d", " ", "d", "e", "v", "i", "c",
                               "e", " ", "p", "a", "s", "s", "w", "o", "r", "d", " ", "t", "o",
                               " ">> \o NewPwdOf(command), TRUE),
          ret |-> TRUE]

\* completedSteps.includes(step)
IncludesStep(completedSteps, step) ==
    \E i \in 1..Len(completedSteps) : completedSteps[i] = JStr(step)

\* the second half of saveToLocalStorage: mark the step as completed; a value
\* that is not a JSON array makes the function throw into its catch
markCompleted(st, step) ==
    Let(getItem(st, COMPLETED_STEPS_KEY), LAMBDA saved :
        IF ~Truthy(saved)
        THEN [store |-> setItem(st, COMPLETED_STEPS_KEY, JSONstringify(JArr(<<JStr(step)>>))),
              ret |-> TRUE]
        ELSE IF ~JSONparse(saved.s).ok \/ JSONparse(saved.s).v.t # "arr"
        THEN [store |-> st, ret |-> FALSE]
        ELSE IF IncludesStep(JSONparse(saved.s).v.a, step)
        THEN [store |-> st, ret |-> TRUE]
        ELSE [store |-> setItem(st, COMPLETED_STEPS_KEY,
                            JSONstringify(JArr(Append(JSONparse(saved.s).v.a, JStr(step))))),
              ret |-> TRUE])

\* saveToLocalStorage(newPwd) of the password-change screen: [store, ret]
Step2_saveToLocalStorage(st, device, newPwd, draws) ==
    markCompleted(
        IF Truthy(device)
        THEN loadDevices(updateDevice(st, JObj(ObjSet(device.o, K_password, JStr(newPwd)))).store,
                         draws).store
        ELSE setItem(st, K_password, newPwd),
        <<"s", "t", "e", "p", "2">>)

\* changePassword() saving the new password whether or not the message was
\* opened
changePasswordOn_SaveUnsent(st, f, newPassword, confirmPassword, linking, draws) ==
    IF newPassword = << >> \/ Len(newPassword) # 4 \/ ~AllDigits(newPassword) THEN st
    ELSE IF newPassword # confirmPassword THEN st
    ELSE Let(Step2_sendSMS(st, f.unitNumber, f.password \o <<"P">> \o newPassword, linking),
             LAMBDA sent :
                Step2_saveToLocalStorage(sent.store, f.device, newPassword, draws).store)

\* changePassword() on the screen whose fields are f: the store afterwards
changePasswordOn(st, f, newPassword, confirmPassword, linking, draws) ==
    IF newPassword = << >> \/ Len(newPassword) # 4 \/ ~AllDigits(newPassword) THEN st
    ELSE IF newPassword # confirmPassword THEN st
    ELSE Let(Step2_sendSMS(st, f.unitNumber, f.password \o <<"P">> \o newPassword, linking),
             LAMBDA sent :
                IF sent.ret
                THEN Step2_saveToLocalStorage(sent.store, f.device, newPassword, draws).store
                ELSE sent.store)

changePassword(st, newPassword, confirmPassword, linking, draws) ==
    changePasswordOn(st, ScreenFields(getActiveDevice(st), st),
                     newPassword, confirmPassword, linking, draws)

(***************************************************************************)
(* App load and migration as a state machine over the legacy stores        *)
(***************************************************************************)
\* migrations counted before app loads stop being explored
MaxMigrations == 2

\* st with key holding the string of opt, or without the key when opt is null
WithKey(st, key, opt) == IF opt = JNull THEN st ELSE setItem(st, key, opt.s)

Relay_Custom == JSONstringify(JObj(<<[k |-> K_accessControl, v |-> JStr(<<"A", "L", "L">>)],
                                     [k |-> K_latchTime, v |-> JStr(<<"0", "0", "5">>)]>>))
Relay_NotJson == <<"{", "l", "a", "t", "c", "h">>
OneDevice ==
    JSONstringify(JArr(<<JObj(ObjSet(DeviceFields(<<"G", "a", "t", "e">>, <<"+", "1", "5">>,
        <<"1", "2", "3", "4">>).o, K_id,
                                     JStr(<<"d", "1">>)))>>))

LegacyUnitNumbers == {JNull, JStr(<< >>), JStr(<<"+", "1", "5">>)}
LegacyPasswords == {JNull, JStr(<< >>), JStr(<<"0", "0", "0", "7">>), JStr(<<"1", "2">>)}
LegacyRelaySettings == {JNull, JStr(<< >>), JStr(Relay_Custom), JStr(Relay_NotJson)}
StoredDevices == {JNull, JStr(<<"[", "]">>), JStr(<<"o", "o", "p", "s">>), JStr(OneDevice)}
StoredPointers == {JNull, JStr(<<"d", "0">>)}

\* the stores an app load may find: any combination of the legacy keys, the
\* device collection and the pointer
LegacyStores ==
    {WithKey(WithKey(WithKey(WithKey(WithKey(EmptyStore,
        K_unitNumber, u), K_password, p), K_relaySettings, r),
        DEVICES_STORAGE_KEY, d), ACTIVE_DEVICE_KEY, a) :
        u \in LegacyUnitNumbers, p \in LegacyPasswords, r \in LegacyRelaySettings,
        d \in StoredDevices, a \in StoredPointers}

InitMigration ==
    /\ store \in LegacyStores
    /\ last = InitLast
    /\ backupFile = NoBackupFile
    /\ calls = 0
    /\ migrated = 0
    /\ inflight = NoneInFlight

\* the app loads: DeviceProvider.loadDevices
LoadDevices ==
    /\ migrated < MaxMigrations
    /\ \E draws \in RandomDraws :
          \E r \in {loadDevices(store, draws)} :
              /\ store' = r.store
              /\ last' = [op |-> "loadDevices", arg |-> JUndefined,
                          ret |-> JBool(r.migrated), pre |-> store]
              /\ migrated' = migrated + (IF r.migrated THEN 1 ELSE 0)
    /\ UNCHANGED <<backupFile, calls, inflight>>

NextMigration == LoadDevices

SpecMigration == InitMigration /\ [][NextMigration]_vars

(***************************************************************************)
(* The app as a state machine: from a fresh install the user saves the     *)
(* legacy settings, the app loads, devices are added and deleted, the     *)
(* password is changed                                                     *)
(***************************************************************************)
\* devices stored before the add-device screen stops being explored
MaxAppDevices == 1

\* what the user types into the password field of the add-device screen
FormPasswords == {<<"1", "2", "3", "4">>, <<"1", "2">>}
\* what the user types into the other password fields
TypedPasswords == {<<"0", "0", "0", "7">>, <<"1", "2">>}

HandleAddDevice ==
    /\ Len(getDevices(store)) < MaxAppDevices
    /\ \E deviceName \in Names, unitNumber \in UnitNumbers, password \in FormPasswords,
          draws \in RandomDraws :
          /\ store' = handleAddDevice(store, deviceName, unitNumber, password, draws)
          /\ last' = [op |-> "handleAddDevice", arg |-> JStr(password)]
    /\ UNCHANGED <<backupFile, calls, migrated, inflight>>

\* "Save Settings" on the legacy settings screen
SaveLegacySettings ==
    \E unitNumber \in UnitNumbers, text \in TypedPasswords :
        /\ store' = SettingsPage_saveToLocalStorage(store, unitNumber, FilterPassword(text),
                                                    DefaultRelaySettings)
        /\ last' = [op |-> "saveToLocalStorage", arg |-> JStr(FilterPassword(text))]
        /\ UNCHANGED <<backupFile, calls, migrated, inflight>>

\* "Change Password" on the password-change screen
ChangePassword ==
    \E newPassword \in TypedPasswords, confirmPassword \in TypedPasswords,
       linking \in Linking, draws \in RandomDraws :
        /\ store' = changePassword(store, newPassword, confirmPassword, linking, draws)
        /\ last' = [op |-> "changePassword", arg |-> JStr(newPassword)]
        /\ UNCHANGED <<backupFile, calls, migrated, inflight>>

NextApp == SaveLegacySettings \/ LoadDevices \/ HandleAddDevice \/ DeleteDevice \/ ChangePassword

SpecApp == Init /\ [][NextApp]_vars

(***************************************************************************)
(* Claims about the activity log, the migration and the screens            *)
(***************************************************************************)
\* the passwords in force in st: of every stored device, and the legacy password
PasswordsInForce(st) ==
    {GetProp(getDevices(st)[i], K_password).s : i \in 1..Len(getDevices(st))}
        \cup (IF K_password \in DOMAIN st THEN {st[K_password]} ELSE {})

\* some stored log entry's details contain the password p
LoggedInPlain(st, p) ==
    /\ p # << >>
    /\ \E i \in 1..Len(getLogs(st)) : Includes(GetProp(getLogs(st)[i], K_details).s, p)

\* C11: after every action, no stored log entry's details contain a password
\* of the device in plain text: neither one in force before the action nor one
\* in force after it
C11_LogsHoldNoPassword ==
    [][\A p \in PasswordsInForce(store) \cup PasswordsInForce(store') :
          ~LoggedInPlain(store', p)]_vars


\* C12: across registry operations and app loads, a device is created from the
\* legacy keys at most once
C12_MigratesAtMostOnce == migrated <= 1


\* the last call was an app load that found no device stored
LoadedOnEmpty == last.op = "loadDevices" /\ getDevices(last.pre) = << >>

\* C13: migrateFromLegacyStorage is idempotent: called again right after a call,
\* with any random draws, it returns false and writes nothing, so the device
\* collection and the active-device pointer are those the first call left
C13_MigrationIdempotent ==
    last.op = "loadDevices" =>
        \A draws \in RandomDraws :
            migrateFromLegacyStorage(store, draws) = [store |-> store, ret |-> FALSE]

\* a first call that created the device, the legacy keys still being stored
C13_Witness ==
    /\ LoadedOnEmpty
    /\ last.ret = JBool(TRUE)
    /\ Len(getDevices(store)) = 1
    /\ K_unitNumber \in DOMAIN store

\* the password the migrated device is to have
ExpectedPassword(st) ==
    IF K_password \in DOMAIN st /\ st[K_password] # << >> THEN st[K_password]
    ELSE DefaultPassword

\* the legacy relaySettings value is stored and not empty
HasRelaySettings(st) == K_relaySettings \in DOMAIN st /\ st[K_relaySettings] # << >>

\* the relay settings the migrated device d is to have: the legacy ones, the
\* defaults when there are none
HasExpectedRelaySettings(d, st) ==
    IF ~HasRelaySettings(st) THEN GetProp(d, K_relaySettings) = DefaultRelaySettings
    ELSE JSONparse(st[K_relaySettings]).ok
            => GetProp(d, K_relaySettings) = JSONparse(st[K_relaySettings]).v

\* C14: on an empty collection migrateFromLegacyStorage creates exactly one
\* device if and only if the legacy unitNumber is not empty; the device has the
\* legacy unit number, the legacy password or 1234, the legacy relay settings or
\* the defaults, and is the active device; with no unit number nothing is written
C14_MigrationCreatesFromUnitNumber ==
    LoadedOnEmpty =>
        IF K_unitNumber \in DOMAIN last.pre /\ last.pre[K_unitNumber] # << >>
        THEN /\ last.ret = JBool(TRUE)
             /\ Len(getDevices(store)) = 1
             /\ GetProp(getDevices(store)[1], K_unitNumber) = JStr(last.pre[K_unitNumber])
             /\ GetProp(getDevices(store)[1], K_password) = JStr(ExpectedPassword(last.pre))
             /\ HasExpectedRelaySettings(getDevices(store)[1], last.pre)
             /\ getActiveDevice(store) = getDevices(store)[1]
        ELSE last.ret = JBool(FALSE) /\ store = last.pre

\* C15: a legacy relaySettings value that is not valid JSON is treated as
\* absent: the device is still created from the legacy unit number, with the
\* default relay settings
C15_MalformedRelaySettingsAsAbsent ==
    (/\ LoadedOnEmpty
     /\ K_unitNumber \in DOMAIN last.pre /\ last.pre[K_unitNumber] # << >>
     /\ HasRelaySettings(last.pre)
     /\ ~JSONparse(last.pre[K_relaySettings]).ok)
        => /\ Len(getDevices(store)) = 1
           /\ GetProp(getDevices(store)[1], K_unitNumber) = JStr(last.pre[K_unitNumber])
           /\ GetProp(getDevices(store)[1], K_relaySettings) = DefaultRelaySettings


(***************************************************************************)
(* setActiveDevice and updateDevice called on any stored collection        *)
(***************************************************************************)
\* the collections addDevice may have stored: up to MaxDevices records, ids
\* repeated or not
StoredLists ==
    UNION {[1..n -> {JObj(ObjSet(d.o, K_id, JStr(id))) : d \in DeviceInputs, id \in UUIDs}] :
              n \in 0..MaxDevices}

\* the pointers that may be stored: none, or any id
PointerValues == {JNull} \cup {JStr(id) : id \in UUIDs}

RegistryStores ==
    {WithKey(setItem(EmptyStore, DEVICES_STORAGE_KEY, JSONstringify(JArr(devices))),
             ACTIVE_DEVICE_KEY, a) : devices \in StoredLists, a \in PointerValues}

InitCalls ==
    /\ store \in RegistryStores
    /\ last = InitLast
    /\ backupFile = NoBackupFile
    /\ calls = 0
    /\ migrated = 0
    /\ inflight = NoneInFlight

\* one call of updateDevice on the store drawn
UpdateStored == last.op = "init" /\ UpdateDevice
\* one call of setActiveDevice on the store drawn
SetActiveStored == last.op = "init" /\ SetActiveDevice

NextCalls == UpdateStored \/ SetActiveStored

SpecCalls == InitCalls /\ [][NextCalls]_vars

\* the ids of the records of a list
IdsOf(devices) == {GetProp(devices[i], K_id) : i \in 1..Len(devices)}

\* after is before with the records that have the id of device replaced by it
ReplacedIn(before, after, device) ==
    /\ Len(after) = Len(before)
    /\ \A i \in 1..Len(before) :
          after[i] = IF GetProp(before[i], K_id) = GetProp(device, K_id)
                     THEN device
                     ELSE before[i]
    /\ GetProp(device, K_id) \notin IdsOf(before) => after = before

\* C16: setActiveDevice(id) stores id as the pointer for every id, also one no
\* record has; while the pointer is absent or matches no record,
\* getActiveDevice() returns null
C16_PointerStoredAsGiven ==
    /\ last.op = "setActiveDevice" => getActiveDeviceId(store) = last.arg
    /\ (ACTIVE_DEVICE_KEY \notin DOMAIN store
            \/ getActiveDeviceId(store) \notin IdsOf(getDevices(store)))
          => getActiveDevice(store) = JNull

\* setActiveDevice was given an id no stored record has, devices being stored
C16_Witness ==
    /\ last.op = "setActiveDevice"
    /\ Len(getDevices(store)) > 0
    /\ last.arg \notin IdsOf(getDevices(store))
    /\ getActiveDeviceId(store) = last.arg
    /\ getActiveDevice(store) = JNull

\* C17: updateDevice(record) with an id no stored record has leaves the list
\* of devices and the pointer as they were; with a matching id the records with
\* that id become the given record, every other record and the order are unchanged
C17_UpdateReplacesOnlyMatching ==
    last.op = "updateDevice" =>
        /\ getActiveDeviceId(store) = getActiveDeviceId(last.pre)
        /\ ReplacedIn(getDevices(last.pre), getDevices(store), last.arg)

\* updateDevice was given a record whose id no stored record has, devices being stored
C17_Witness ==
    /\ last.op = "updateDevice"
    /\ Len(getDevices(last.pre)) > 0
    /\ GetProp(last.arg, K_id) \notin IdsOf(getDevices(last.pre))
    /\ getDevices(store) = getDevices(last.pre)


\* a password of exactly 4 numeric characters
FourDigits(v) == v.t = "str" /\ Len(v.s) = 4 /\ AllDigits(v.s)

\* C18: every stored DeviceRecord has a password of exactly 4 numeric
\* characters, whatever the add-device screen, the password-change screen, the
\* legacy settings screen and the migration have done
C18_PasswordsAreFourDigits ==
    \A i \in 1..Len(getDevices(store)) :
        FourDigits(GetProp(getDevices(store)[i], K_password))


(***************************************************************************)
(* Authorized-user lists: the context operations, the user-settings screen *)
(* and the step-3 screen                                                   *)
(***************************************************************************)
USERS_KEY == <<"a", "u", "t", "h", "o", "r", "i", "z", "e", "d", "U", "s", "e", "r", "s">>
\* `authorizedUsers_${deviceId}`
DeviceUsersKey(deviceId) == <<"a", "u", "t", "h", "o", "r", "i", "z", "e", "d", "U", "s", "e",
    "r", "s", "_">> \o deviceId

K_serial == <<"s", "e", "r", "i", "a", "l">>
K_phone == <<"p", "h", "o", "n", "e">>
K_startTime == <<"s", "t", "a", "r", "t", "T", "i", "m", "e">>
K_endTime == <<"e", "n", "d", "T", "i", "m", "e">>
K_phoneNumber == <<"p", "h", "o", "n", "e", "N", "u", "m", "b", "e", "r">>
K_serialNumber == <<"s", "e", "r", "i", "a", "l", "N", "u", "m", "b", "e", "r">>

\* getUsers(deviceId): the stored list for that device, or empty
getDeviceUsers(st, deviceId) ==
    Let(getItem(st, DeviceUsersKey(deviceId)), LAMBDA saved :
        IF Truthy(saved) /\ JSONparse(saved.s).ok THEN JSONparse(saved.s).v
        ELSE JArr(<< >>))

\* saveUsers(deviceId, list): wholesale replace of the list of that device
saveDeviceUsers(st, deviceId, users) ==
    setItem(st, DeviceUsersKey(deviceId), JSONstringify(users))

\* activeDevice?.id, activeDevice being what loadDevices read from the store
ActiveDeviceId(st) ==
    IF getActiveDevice(st) = JNull THEN JUndefined
    ELSE GetProp(getActiveDevice(st), K_id)

\* deviceId || activeDevice?.id
TargetDeviceId(st, deviceId) == IF Truthy(deviceId) THEN deviceId ELSE ActiveDeviceId(st)

getAuthorizedUsers(st, deviceId) ==
    Let(TargetDeviceId(st, deviceId), LAMBDA targetDeviceId :
        IF Truthy(targetDeviceId) THEN getDeviceUsers(st, targetDeviceId.s)
        ELSE Let(getItem(st, USERS_KEY), LAMBDA legacyUsers :
                 IF ~Truthy(legacyUsers) THEN JArr(<< >>)
                 ELSE IF JSONparse(legacyUsers.s).ok THEN JSONparse(legacyUsers.s).v
                 ELSE JArr(<< >>)))

NoDeviceMessage == "Cannot save users: No device ID provided and no active device"

\* the result is the store and what the promise settles to
saveAuthorizedUsers(st, users, deviceId) ==
    Let(TargetDeviceId(st, deviceId), LAMBDA targetDeviceId :
        IF ~Truthy(targetDeviceId)
        THEN [store |-> st, ret |-> Thrown(NoDeviceMessage)]
        ELSE [store |-> saveDeviceUsers(st, targetDeviceId.s, users), ret |-> JUndefined])

\* a row of the user-settings screen
UserRow(serial, phone) ==
    JObj(<<[k |-> K_serial, v |-> JStr(serial)], [k |-> K_phone, v |-> JStr(phone)],
           [k |-> K_startTime, v |-> JStr(<< >>)], [k |-> K_endTime, v |-> JStr(<< >>)]>>)

\* the rows the user-settings screen starts with
DefaultAuthorizedUsers ==
    JArr(<<UserRow(<<"0", "0", "1">>, << >>), UserRow(<<"0", "0", "2">>, << >>), UserRow(<<"0",
        "0", "3">>, << >>),
           UserRow(<<"0", "0", "4">>, << >>), UserRow(<<"0", "0", "5">>, << >>)>>)

\* the device of the user-settings screen: the one named by the route
\* parameter when it is stored, else none; without a parameter the active one
ScreenDevice(st, paramDeviceId) ==
    IF Truthy(paramDeviceId) THEN OrNull(FindDevice(getDevices(st), paramDeviceId))
    ELSE getActiveDevice(st)

\* the rows of the screen after loadAuthorizedUsers(deviceId); authorizedUsers
\* are the rows before
loadAuthorizedUsers(st, deviceId, authorizedUsers) ==
    Let(IF Truthy(deviceId) THEN getItem(st, DeviceUsersKey(deviceId.s)) ELSE JNull,
        LAMBDA deviceUsers :
    Let(IF ~Truthy(deviceUsers) THEN getItem(st, USERS_KEY) ELSE deviceUsers,
        LAMBDA savedUsers :
        IF Truthy(savedUsers) /\ JSONparse(savedUsers.s).ok THEN JSONparse(savedUsers.s).v
        ELSE authorizedUsers))

\* saveToLocalStorage of the user-settings screen with every save going to
\* the legacy key
AuthorizedUsers_saveToLocalStorage_Legacy(st, device, authorizedUsers) ==
    setItem(st, USERS_KEY, JSONstringify(authorizedUsers))

\* saveToLocalStorage of the user-settings screen
AuthorizedUsers_saveToLocalStorage(st, device, authorizedUsers) ==
    IF device # JNull /\ Truthy(GetProp(device, K_id))
    THEN setItem(st, DeviceUsersKey(GetProp(device, K_id).s), JSONstringify(authorizedUsers))
    ELSE setItem(st, USERS_KEY, JSONstringify(authorizedUsers))

\* the users of the step-3 screen, as loadData reads them
Step3_users(st) ==
    Let(getItem(st, USERS_KEY), LAMBDA savedUsers :
        IF Truthy(savedUsers) /\ JSONparse(savedUsers.s).ok THEN JSONparse(savedUsers.s).v
        ELSE JArr(<< >>))

\* saveUsers of the step-3 screen
Step3_saveUsers(st, updatedUsers) ==
    markCompleted(setItem(st, USERS_KEY, JSONstringify(updatedUsers)), <<"s", "t", "e", "p",
        "3">>).store

\* the digits a string starts with
LeadingDigits(s) ==
    SubSeq(s, 1, CHOOSE n \in 0..Len(s) :
                     /\ \A i \in 1..n : IsDigit(s[i])
                     /\ (n < Len(s) => ~IsDigit(s[n + 1])))

\* padStart(3, '0')
PadStart3(s) ==
    IF Len(s) >= 3 THEN s ELSE [i \in 1..(3 - Len(s)) |-> "0"] \o s

\* replace(/[^\d+]/g, '')
CleanPhone(phone) == SelectSeq(phone, LAMBDA c : IsDigit(c) \/ c = "+")

\* the user addUser builds when no name and no times are entered
Step3_newUser(users, newUserPhone, serialNumber) ==
    JObj(<<[k |-> K_phoneNumber, v |-> JStr(CleanPhone(newUserPhone))],
           [k |-> K_name, v |-> JStr(<<"U", "s", "e", "r", " ">> \o serialNumber)],
           [k |-> K_id, v |-> JStr(PadStart3(DigitsOf(Len(users) + 1)))],
           [k |-> K_serialNumber, v |-> JStr(serialNumber)]>>)

\* addUser of the step-3 screen with the name and the times left empty and a
\* serial number typed without sign or blanks; users are the users of the
\* screen. The text message it opens leaves the store alone.
Step3_addUser(st, users, newUserPhone, newUserSerial) ==
    IF newUserPhone = << >> \/ newUserSerial = << >>
    THEN [store |-> st, ret |-> FALSE]
    ELSE IF \E i \in 1..Len(users) : GetProp(users[i], K_phoneNumber) = JStr(newUserPhone)
    THEN [store |-> st, ret |-> FALSE]
    ELSE IF LeadingDigits(newUserSerial) = << >>
            \/ NumOf(LeadingDigits(newUserSerial)) < 1
            \/ NumOf(LeadingDigits(newUserSerial)) > 200
    THEN [store |-> st, ret |-> FALSE]
    ELSE Let(PadStart3(DigitsOf(NumOf(LeadingDigits(newUserSerial)))), LAMBDA serialNumber :
        IF \E i \in 1..Len(users) : GetProp(users[i], K_serialNumber) = JStr(serialNumber)
        THEN [store |-> st, ret |-> FALSE]
        ELSE [store |-> Step3_saveUsers(st,
                            JArr(Append(users, Step3_newUser(users, newUserPhone, serialNumber)))),
              ret |-> TRUE])


(***************************************************************************)
(* The writers of user lists, each called once on a stored state           *)
(***************************************************************************)
MaxUserDevices == 2

\* a list saved earlier
OldUsers == JArr(<<UserRow(<<"0", "0", "1">>, <<"+", "1", "6">>)>>)

\* the lists a caller saves
UserLists == {JArr(<< >>), JArr(<<UserRow(<<"0", "0", "1">>, <<"+", "1", "5">>)>>), OldUsers}

\* what the step-3 screen saved earlier
OldStep3Users == JArr(<<Step3_newUser(<< >>, <<"+", "1", "6">>, <<"0", "0", "1">>)>>)

\* the registered devices: up to MaxUserDevices records of distinct ids
UserDeviceLists ==
    {devices \in UNION {[1..n -> {JObj(ObjSet(d.o, K_id, JStr(id))) :
                                      d \in DeviceInputs, id \in UUIDs}] :
                           n \in 0..MaxUserDevices} :
        \A i, j \in 1..Len(devices) :
            GetProp(devices[i], K_id) = GetProp(devices[j], K_id) => i = j}

RECURSIVE WithUsersOf(_, _, _)
\* the store with the list saved under the key of every id of ids
WithUsersOf(st, ids, users) ==
    IF ids = {} THEN st
    ELSE Let(CHOOSE id \in ids : TRUE, LAMBDA id :
             WithUsersOf(saveDeviceUsers(st, id, users), ids \ {id}, users))

\* registered devices, a pointer or none, the device lists saved earlier or
\* not, and a legacy list or none
UserStores ==
    {WithKey(WithUsersOf(
                 WithKey(setItem(EmptyStore, DEVICES_STORAGE_KEY, JSONstringify(JArr(devices))),
                         ACTIVE_DEVICE_KEY, a),
                 ids, OldUsers),
             USERS_KEY, legacy) :
        devices \in UserDeviceLists, a \in PointerValues, ids \in {{}, UUIDs},
        legacy \in {JNull, JStr(JSONstringify(OldStep3Users))}}

InitUsers ==
    /\ store \in UserStores
    /\ last = InitLast
    /\ backupFile = NoBackupFile
    /\ calls = 0
    /\ migrated = 0
    /\ inflight = NoneInFlight

\* deviceId as a caller may pass it: left out, or any id
DeviceIdArgs == {JUndefined} \cup {JStr(id) : id \in UUIDs}

\* one call of saveAuthorizedUsers of the context
SaveAuthorizedUsers ==
    /\ last.op = "init"
    /\ \E users \in UserLists, deviceId \in DeviceIdArgs :
          \E r \in {saveAuthorizedUsers(store, users, deviceId)} :
              /\ store' = r.store
              /\ last' = [op |-> "saveAuthorizedUsers",
                          arg |-> [users |-> users, deviceId |-> deviceId],
                          ret |-> r.ret, pre |-> store]
    /\ UNCHANGED <<backupFile, calls, migrated, inflight>>

\* the user-settings screen opened with or without a route parameter, its
\* rows edited to users, then saved
SaveUserSettings ==
    /\ last.op = "init"
    /\ \E users \in UserLists, deviceId \in DeviceIdArgs :
          /\ store' = AuthorizedUsers_saveToLocalStorage(store, ScreenDevice(store, deviceId),
                                                         users)
          /\ last' = [op |-> "AuthorizedUsers.saveToLocalStorage",
                      arg |-> [users |-> users, deviceId |-> deviceId],
                      ret |-> JUndefined, pre |-> store]
    /\ UNCHANGED <<backupFile, calls, migrated, inflight>>

NewUserPhones == {<< >>, <<"+", "1", "5">>, <<"+", "1", "6">>}
NewUserSerials == {<< >>, <<"1">>, <<"2">>, <<"2", "0", "1">>}

\* the step-3 screen opened, then addUser
Step3AddUser ==
    /\ last.op = "init"
    /\ \E newUserPhone \in NewUserPhones, newUserSerial \in NewUserSerials :
          \E r \in {Step3_addUser(store, Step3_users(store).a, newUserPhone, newUserSerial)} :
              /\ store' = r.store
              /\ last' = [op |-> "addUser",
                          arg |-> [users |-> JStr(newUserPhone), deviceId |-> JUndefined],
                          ret |-> JBool(r.ret), pre |-> store]
    /\ UNCHANGED <<backupFile, calls, migrated, inflight>>

NextUsers == SaveAuthorizedUsers \/ SaveUserSettings \/ Step3AddUser

SpecUsers == InitUsers /\ [][NextUsers]_vars


\* the operations that write a user list
UserWrites == {"saveAuthorizedUsers", "AuthorizedUsers.saveToLocalStorage", "addUser"}

\* the call had no device id and no active device to fall back on
NoDeviceFor(st, deviceId) == ~Truthy(deviceId) /\ getActiveDevice(st) = JNull

\* C19: a write of a user list leaves the legacy key authorizedUsers as it
\* was, whichever screen or context operation made it, and a save with no
\* device id and no active device fails and leaves the whole store as it was
C19_UserWritesAreDeviceScoped ==
    last.op \in UserWrites =>
        /\ getItem(store, USERS_KEY) = getItem(last.pre, USERS_KEY)
        /\ (last.op # "addUser" /\ NoDeviceFor(last.pre, last.arg.deviceId)) =>
               /\ store = last.pre
               /\ last.ret = Thrown(NoDeviceMessage)


\* the lists of the devices other than id are in after as they are in before
OtherListsKept(before, after, id) ==
    \A other \in UUIDs \ {id} :
        getItem(after, DeviceUsersKey(other)) = getItem(before, DeviceUsersKey(other))

\* C20: after a list is saved for a device, by the context or by the
\* user-settings screen, reading the users of the same device returns exactly
\* the saved list, and the lists stored for the other device ids are unchanged
C20_SaveThenReadReturnsSaved ==
    /\ (last.op = "saveAuthorizedUsers" /\ last.ret = JUndefined) =>
           \E id \in {TargetDeviceId(last.pre, last.arg.deviceId)} :
               /\ getAuthorizedUsers(store, id) = last.arg.users
               /\ getAuthorizedUsers(store, last.arg.deviceId) = last.arg.users
               /\ OtherListsKept(last.pre, store, id.s)
    /\ (last.op = "AuthorizedUsers.saveToLocalStorage"
           /\ ScreenDevice(last.pre, last.arg.deviceId) # JNull) =>
           \E id \in {GetProp(ScreenDevice(last.pre, last.arg.deviceId), K_id)} :
               /\ loadAuthorizedUsers(store, id, DefaultAuthorizedUsers) = last.arg.users
               /\ OtherListsKept(last.pre, store, id.s)

\* a list was saved from the user-settings screen for a device that had
\* another list, while another device has a list and a legacy list is stored
C20_Witness ==
    /\ last.op = "AuthorizedUsers.saveToLocalStorage"
    /\ \E id \in {GetProp(ScreenDevice(last.pre, last.arg.deviceId), K_id)} :
           /\ Truthy(id)
           /\ getItem(last.pre, DeviceUsersKey(id.s)) = JStr(JSONstringify(OldUsers))
           /\ last.arg.users # OldUsers
           /\ \E other \in UUIDs \ {id.s} : Truthy(getItem(last.pre, DeviceUsersKey(other)))
    /\ Truthy(getItem(last.pre, USERS_KEY))


(***************************************************************************)
(* The user-management screen: addUser, removeUser and the text message    *)
(***************************************************************************)
\* the first position where sub occurs in s, 0 when it does not occur
FirstOccurrence(s, sub) ==
    IF Includes(s, sub)
    THEN CHOOSE i \in 1..(Len(s) + 1) :
             OccursAt(s, sub, i) /\ \A j \in 1..(i - 1) : ~OccursAt(s, sub, j)
    ELSE 0

\* s.replace(sub, by) for a string sub: the first occurrence is replaced
ReplaceFirst(s, sub, by) ==
    IF FirstOccurrence(s, sub) = 0 THEN s
    ELSE SubSeq(s, 1, FirstOccurrence(s, sub) - 1) \o by
         \o SubSeq(s, FirstOccurrence(s, sub) + Len(sub), Len(s))

\* users of useAuthorizedUsers(deviceId): the list of that device
useAuthorizedUsers_users(st, deviceId) ==
    IF Truthy(deviceId) THEN getDeviceUsers(st, deviceId.s).a ELSE << >>

\* saveUsers of useAuthorizedUsers(deviceId): a write needs the device id
useAuthorizedUsers_saveUsers(st, deviceId, users) ==
    IF Truthy(deviceId) THEN saveDeviceUsers(st, deviceId.s, JArr(users)) ELSE st

\* deviceId, unitNumber and password of the screen once its load effect has
\* run: the device of the route parameter, else the active device, else the
\* legacy settings
UserMgmtFields(st, paramDeviceId) ==
    IF Truthy(paramDeviceId)
    THEN Let(FindDevice(getDevices(st), paramDeviceId), LAMBDA foundDevice :
             IF Truthy(foundDevice)
             THEN [deviceId |-> paramDeviceId,
                   unitNumber |-> GetProp(foundDevice, K_unitNumber).s,
                   password |-> GetProp(foundDevice, K_password).s]
             ELSE [deviceId |-> paramDeviceId, unitNumber |-> << >>, password |-> << >>])
    ELSE Let(ScreenFields(getActiveDevice(st), st), LAMBDA f :
             [deviceId |-> IF f.device = JNull THEN JUndefined ELSE GetProp(f.device, K_id),
              unitNumber |-> f.unitNumber, password |-> f.password])

\* sendSMS(command) of the user-management screen: the store after its log
UserMgmt_sendSMS(st, f, command, linking) ==
    IF f.unitNumber = << >>
    THEN addLog(st, <<"U", "s", "e", "r", " ", "M", "a", "n", "a", "g", "e", "m", "e", "n",
        "t">>, <<"F", "a", "i", "l", "e", "d", ":", " ", "G", "S", "M", " ", "r", "e", "l", "a",
        "y", " ", "n", "u", "m", "b", "e", "r", " ", "n", "o", "t", " ", "s", "e", "t">>, FALSE)
    ELSE IF linking = "unsupported"
    THEN addLog(st, <<"U", "s", "e", "r", " ", "M", "a", "n", "a", "g", "e", "m", "e", "n",
        "t">>, <<"F", "a", "i", "l", "e", "d", ":", " ", "S", "M", "S", " ", "n", "o", "t", " ",
        "a", "v", "a", "i", "l", "a", "b", "l", "e", " ", "o", "n", " ", "d", "e", "v", "i",
        "c", "e">>, FALSE)
    ELSE IF linking = "error"
    THEN addLog(st, <<"U", "s", "e", "r", " ", "M", "a", "n", "a", "g", "e", "m", "e", "n",
        "t">>, <<"E", "r", "r", "o", "r", ":", " ">> \o LinkingErrorMessage, FALSE)
    ELSE addLog(st, <<"U", "s", "e", "r", " ", "M", "a", "n", "a", "g", "e", "m", "e", "n", "t">>,
                <<"C", "o", "m", "m", "a", "n", "d", " ", "s", "e", "n", "t", ":",
                    " ">> \o ReplaceFirst(command, f.password, <<"*", "*", "*", "*">>), TRUE)

\* the serial numbers in use, as generateNextSerial reads them
UsedSerials(users) ==
    {IF Truthy(GetProp(users[i], K_serialNumber))
     THEN NumOf(LeadingDigits(GetProp(users[i], K_serialNumber).s)) ELSE 0 :
        i \in {j \in 1..Len(users) :
                  ~Truthy(GetProp(users[j], K_serialNumber))
                  \/ LeadingDigits(GetProp(users[j], K_serialNumber).s) # << >>}}

\* the serial field after generateNextSerial
generateNextSerial(users, newUserSerial) ==
    IF newUserSerial # << >> THEN newUserSerial
    ELSE Let(CHOOSE n \in 1..201 :
                 n \notin UsedSerials(users) /\ \A k \in 1..(n - 1) : k \in UsedSerials(users),
             LAMBDA nextSerial :
                 IF nextSerial <= 200 THEN PadStart3(DigitsOf(nextSerial)) ELSE newUserSerial)

\* /^\d{10}$/.test(s)
TenDigits(s) == Len(s) = 10 /\ AllDigits(s)

\* the properties startTime and endTime of a stored user: absent when empty
TimeProps(newUserStartTime, newUserEndTime) ==
    (IF newUserStartTime = << >> THEN << >>
     ELSE <<[k |-> K_startTime, v |-> JStr(newUserStartTime)]>>)
    \o (IF newUserEndTime = << >> THEN << >>
        ELSE <<[k |-> K_endTime, v |-> JStr(newUserEndTime)]>>)

\* the user addUser builds
UserMgmt_newUser(users, newUserPhone, newUserName, serialNumber, newUserStartTime, newUserEndTime) ==
    JObj(<<[k |-> K_phoneNumber, v |-> JStr(CleanPhone(newUserPhone))],
           [k |-> K_name,
            v |-> JStr(IF newUserName = << >> THEN <<"U", "s", "e", "r",
                " ">> \o serialNumber ELSE newUserName)],
           [k |-> K_id, v |-> JStr(PadStart3(DigitsOf(Len(users) + 1)))],
           [k |-> K_serialNumber, v |-> JStr(serialNumber)]>>
         \o TimeProps(newUserStartTime, newUserEndTime))

\* the text message of addUser
AddCommand(password, serialNumber, phoneNumber, newUserStartTime, newUserEndTime) ==
    password \o <<"A">> \o serialNumber \o <<"#">> \o phoneNumber \o <<"#">>
    \o (IF newUserStartTime # << >> /\ newUserEndTime # << >>
        THEN newUserStartTime \o <<"#">> \o newUserEndTime \o <<"#">> ELSE << >>)

\* addUser has refused the form
Refused(st) == [store |-> st, ret |-> FALSE, command |-> << >>]

\* the last steps of addUser, the form being valid
addUserValid(st, f, users, newUser, newUserStartTime, newUserEndTime, linking) ==
    IF ~Truthy(f.deviceId) THEN Refused(st)
    ELSE
         Let(AddCommand(f.password, GetProp(newUser, K_serialNumber).s,
                        GetProp(newUser, K_phoneNumber).s, newUserStartTime, newUserEndTime),
             LAMBDA command :
                 [store |-> UserMgmt_sendSMS(
                                useAuthorizedUsers_saveUsers(st, f.deviceId,
                                                             Append(users, newUser)),
                                f, command, linking),
                  ret |-> TRUE, command |-> command])

\* addUser without its test of the serial position being in use
addUser_NoSerialInUseTest(st, f, users, newUserPhone, newUserName, newUserSerial, newUserStartTime, newUserEndTime, linking) ==
    IF newUserPhone = << >> \/ newUserSerial = << >> THEN Refused(st)
    ELSE IF \E i \in 1..Len(users) : GetProp(users[i], K_phoneNumber) = JStr(newUserPhone)
    THEN Refused(st)
    ELSE IF LeadingDigits(newUserSerial) = << >>
            \/ NumOf(LeadingDigits(newUserSerial)) < 1
            \/ NumOf(LeadingDigits(newUserSerial)) > 200
    THEN Refused(st)
    ELSE IF (newUserStartTime = << >>) # (newUserEndTime = << >>) THEN Refused(st)
    ELSE IF newUserStartTime # << >> /\ (~TenDigits(newUserStartTime) \/ ~TenDigits(newUserEndTime))
    THEN Refused(st)
    ELSE addUserValid(st, f, users,
                      UserMgmt_newUser(users, newUserPhone, newUserName,
                                       PadStart3(DigitsOf(NumOf(LeadingDigits(newUserSerial)))),
                                       newUserStartTime, newUserEndTime),
                      newUserStartTime, newUserEndTime, linking)

\* addUser of the user-management screen; f are the fields of the screen and
\* users its list; the serial number is typed without sign or blanks
addUser(st, f, users, newUserPhone, newUserName, newUserSerial, newUserStartTime, newUserEndTime, linking) ==
    IF newUserPhone = << >> \/ newUserSerial = << >> THEN Refused(st)
    ELSE IF \E i \in 1..Len(users) : GetProp(users[i], K_phoneNumber) = JStr(newUserPhone)
    THEN Refused(st)
    ELSE IF LeadingDigits(newUserSerial) = << >>
            \/ NumOf(LeadingDigits(newUserSerial)) < 1
            \/ NumOf(LeadingDigits(newUserSerial)) > 200
    THEN Refused(st)
    ELSE IF \E i \in 1..Len(users) :
                GetProp(users[i], K_serialNumber)
                    = JStr(PadStart3(DigitsOf(NumOf(LeadingDigits(newUserSerial)))))
    THEN Refused(st)
    ELSE IF (newUserStartTime = << >>) # (newUserEndTime = << >>) THEN Refused(st)
    ELSE IF newUserStartTime # << >> /\ (~TenDigits(newUserStartTime) \/ ~TenDigits(newUserEndTime))
    THEN Refused(st)
    ELSE addUserValid(st, f, users,
                      UserMgmt_newUser(users, newUserPhone, newUserName,
                                       PadStart3(DigitsOf(NumOf(LeadingDigits(newUserSerial)))),
                                       newUserStartTime, newUserEndTime),
                      newUserStartTime, newUserEndTime, linking)

\* the text message of removeUser
RemoveCommand(password, user) ==
    password \o <<"A">>
    \o (IF Truthy(GetProp(user, K_serialNumber)) THEN GetProp(user, K_serialNumber).s
        ELSE <<"0", "0", "1">>) \o <<"#", "#">>

\* removeUser(user), confirmed
removeUser(st, f, users, user, linking) ==
    UserMgmt_sendSMS(
        useAuthorizedUsers_saveUsers(st, f.deviceId,
            SelectSeq(users, LAMBDA u : GetProp(u, K_phoneNumber) # GetProp(user, K_phoneNumber))),
        f, RemoveCommand(f.password, user), linking)


(***************************************************************************)
(* The user-management screen opened on a device, users added and removed  *)
(***************************************************************************)
MaxUsers == 2

\* nothing stored, or one device stored and active
UserMgmtStores ==
    {EmptyStore,
     setItem(setItem(EmptyStore, DEVICES_STORAGE_KEY, OneDevice), ACTIVE_DEVICE_KEY, <<"d", "1">>)}

InitUserMgmt ==
    /\ store \in UserMgmtStores
    /\ last = InitLast
    /\ backupFile = NoBackupFile
    /\ calls = 0
    /\ migrated = 0
    /\ inflight = NoneInFlight

\* the route parameter deviceId: the screen is opened from the setup flow,
\* without one
RouteParams == {JUndefined}
\* the phone field: typed, or pasted with a blank
TypedPhones == {<< >>, <<"+", "1", "5">>, <<"+", "1", " ", "5">>, <<"+", "1", "6">>}
TypedNames == {<< >>}
\* the serial field (after the users list, also what generateNextSerial proposes)
TypedSerials == {<< >>, <<"1">>, <<"2", "0", "1">>}
\* the start and end time fields
TypedTimes == {<<<< >>, << >>>>, <<<<"2", "6", "0", "1", "0", "1", "0", "0", "0", "0">>,
    << >>>>, <<<<"2", "6", "0", "1", "0", "1", "0", "0", "0", "0">>, <<"2", "6", "1", "2", "3",
    "1", "2", "3", "5", "9">>>>}

AddUser ==
    \E paramDeviceId \in RouteParams :
    \E f \in {UserMgmtFields(store, paramDeviceId)} :
    \E users \in {useAuthorizedUsers_users(store, f.deviceId)} :
        /\ Len(users) < MaxUsers
        /\ \E newUserPhone \in TypedPhones, newUserName \in TypedNames,
              newUserSerial \in TypedSerials \cup {generateNextSerial(users, << >>)},
              times \in TypedTimes, linking \in Linking :
              \E r \in {addUser(store, f, users, newUserPhone, newUserName, newUserSerial,
                                times[1], times[2], linking)} :
                  /\ store' = r.store
                  /\ last' = [op |-> "addUser",
                              arg |-> [deviceId |-> f.deviceId, command |-> r.command,
                                       password |-> f.password],
                              ret |-> JBool(r.ret)]
        /\ UNCHANGED <<backupFile, calls, migrated, inflight>>

RemoveUser ==
    \E paramDeviceId \in RouteParams :
    \E f \in {UserMgmtFields(store, paramDeviceId)} :
    \E users \in {useAuthorizedUsers_users(store, f.deviceId)} :
        /\ \E i \in 1..Len(users), linking \in Linking :
              /\ store' = removeUser(store, f, users, users[i], linking)
              /\ last' = [op |-> "removeUser",
                          arg |-> [deviceId |-> f.deviceId,
                                   command |-> RemoveCommand(f.password, users[i]),
                                   password |-> f.password],
                          ret |-> JUndefined]
        /\ UNCHANGED <<backupFile, calls, migrated, inflight>>

NextUserMgmt == AddUser \/ RemoveUser

SpecUserMgmt == InitUserMgmt /\ [][NextUserMgmt]_vars


\* the list stored for the device of the screen
StoredUsers == getDeviceUsers(store, <<"d", "1">>).a

\* no two entries of users have the same value of the property
PairwiseDistinct(users, property) ==
    \A i, j \in 1..Len(users) :
        GetProp(users[i], property) = GetProp(users[j], property) => i = j

\* C21: after any sequence of addUser and removeUser on the user-management
\* screen, no two entries of the device's list have the same stored phoneNumber
C21_PhoneNumbersUnique == PairwiseDistinct(StoredUsers, K_phoneNumber)

\* a 3-digit string denoting a slot in 001..200
IsSlot(v) ==
    /\ v.t = "str" /\ Len(v.s) = 3 /\ AllDigits(v.s)
    /\ NumOf(v.s) >= 1 /\ NumOf(v.s) <= 200

\* C22: after any sequence of addUser and removeUser, every stored
\* serialNumber is a 3-digit string denoting a slot in 001..200, no two
\* entries of the list share a serialNumber, and the text message of an
\* addUser carries the serial number stored for the user it added
C22_SerialsAreUniqueSlots ==
    /\ \A i \in 1..Len(StoredUsers) : IsSlot(GetProp(StoredUsers[i], K_serialNumber))
    /\ PairwiseDistinct(StoredUsers, K_serialNumber)
    /\ (last.op = "addUser" /\ last.ret = JBool(TRUE)) =>
           /\ Len(StoredUsers) > 0
           /\ OccursAt(last.arg.command,
                       last.arg.password \o <<"A">>
                       \o GetProp(StoredUsers[Len(StoredUsers)], K_serialNumber).s \o <<"#">>
                       \o GetProp(StoredUsers[Len(StoredUsers)], K_phoneNumber).s \o <<"#">>, 1)

\* a user was added at the slot typed as 1 after another was added and one
\* was removed: the list holds two users
C22_Witness ==
    /\ last.op = "addUser" /\ last.ret = JBool(TRUE)
    /\ Len(StoredUsers) = 2
    /\ GetProp(StoredUsers[2], K_serialNumber) = JStr(<<"0", "0", "1">>)
    /\ GetProp(StoredUsers[1], K_id) = JStr(<<"0", "0", "2">>)

\* C23: after any sequence of addUser and removeUser, the id values of the
\* entries of one device's list are pairwise distinct
C23_IdsUnique == PairwiseDistinct(StoredUsers, K_id)


\* C26: in every state reached from an empty store by addDevice, updateDevice,
\* deleteDevice and setActiveDevice of the id of a stored device, a non-empty
\* collection implies that getActiveDevice() returns a device of the collection
C26_NonEmptyHasActiveDevice ==
    Len(getDevices(store)) > 0 =>
        \E i \in 1..Len(getDevices(store)) : getActiveDevice(store) = getDevices(store)[i]

\* the active device was deleted while another device was stored: the
\* collection is not empty and the pointer was moved
C26_Witness ==
    /\ last.op = "deleteDevice"
    /\ getActiveDeviceId(last.pre) = last.arg
    /\ Len(getDevices(store)) > 0
    /\ getActiveDeviceId(store) # last.arg


(***************************************************************************)
(* The password-change screen opened on a stored state, changePassword once *)
(***************************************************************************)
\* completedSteps as stored: absent, holding step2, or not JSON
StoredSteps == {JNull, JStr(<<"[", "\"", "s", "t", "e", "p", "2", "\"", "]">>), JStr(<<"o", "o",
    "p", "s">>)}

\* nothing stored, one device stored and active, or the legacy settings with
\* and without a unit number
PasswordStores ==
    {WithKey(st, COMPLETED_STEPS_KEY, steps) :
        st \in {EmptyStore,
                setItem(setItem(EmptyStore, DEVICES_STORAGE_KEY, OneDevice),
                        ACTIVE_DEVICE_KEY, <<"d", "1">>),
                setItem(setItem(EmptyStore, K_unitNumber, <<"+", "1", "5">>), K_password, <<"1",
                    "2", "3", "4">>),
                setItem(EmptyStore, K_password, <<"1", "2", "3", "4">>)},
        steps \in StoredSteps}

InitPassword ==
    /\ store \in PasswordStores
    /\ last = InitLast
    /\ backupFile = NoBackupFile
    /\ calls = 0
    /\ migrated = 0
    /\ inflight = NoneInFlight

\* changePassword pressed once on the screen just opened
ChangePasswordOnce ==
    /\ last.op = "init"
    /\ \E newPassword \in TypedPasswords, confirmPassword \in TypedPasswords,
          linking \in Linking, draws \in RandomDraws :
          /\ store' = changePassword(store, newPassword, confirmPassword, linking, draws)
          /\ last' = [op |-> "changePassword",
                      arg |-> [newPassword |-> newPassword,
                               confirmPassword |-> confirmPassword, linking |-> linking],
                      ret |-> JUndefined, pre |-> store]
    /\ UNCHANGED <<backupFile, calls, migrated, inflight>>

NextPassword == ChangePasswordOnce

SpecPassword == InitPassword /\ [][NextPassword]_vars

\* the passwords a store holds: those of the device records, in order, and
\* the legacy one
StoredPasswords(st) ==
    <<[i \in 1..Len(getDevices(st)) |-> GetProp(getDevices(st)[i], K_password)],
      getItem(st, K_password)>>

\* the message was opened: the form was valid, a unit number was there and
\* Linking opened the composer
MessageOpened(st, arg) ==
    /\ Len(arg.newPassword) = 4 /\ AllDigits(arg.newPassword)
    /\ arg.newPassword = arg.confirmPassword
    /\ ScreenFields(getActiveDevice(st), st).unitNumber # << >>
    /\ arg.linking = "opened"

\* C27: changePassword replaces the stored password, of the device or the
\* legacy one, by the new password when the message <old password>P<new
\* password> was opened, which the log of the change records; when the unit
\* number is missing, SMS is unsupported, opening fails, or the new password
\* is not 4 digits or differs from its confirmation, every stored password is
\* as it was
C27_PasswordSavedOnlyAfterSms ==
    last.op = "changePassword" =>
        IF MessageOpened(last.pre, last.arg)
        THEN /\ ScreenFields(getActiveDevice(store), store).password = last.arg.newPassword
             /\ getLogs(store)[Len(getLogs(store))]
                    = LogEntry(<<"P", "a", "s", "s", "w", "o", "r", "d", " ", "C", "h", "a",
                        "n", "g", "e">>,
                               <<"C", "h", "a", "n", "g", "e", "d", " ", "d", "e", "v", "i",
                                   "c", "e", " ", "p", "a", "s", "s", "w", "o", "r", "d", " ",
                                   "t", "o", " ">> \o last.arg.newPassword, TRUE)
        ELSE StoredPasswords(store) = StoredPasswords(last.pre)

\* the password of the stored device was changed after the message was opened
C27_Witness ==
    /\ last.op = "changePassword"
    /\ MessageOpened(last.pre, last.arg)
    /\ Len(getDevices(store)) = 1
    /\ GetProp(getDevices(last.pre)[1], K_password) = JStr(<<"1", "2", "3", "4">>)
    /\ GetProp(getDevices(store)[1], K_password) = JStr(<<"0", "0", "0", "7">>)


(***************************************************************************)
(* addDevice step by step: two calls in flight                             *)
(***************************************************************************)
\* addDevice up to the end of `await getDevices()`: the devices it has read
\* and the device it is going to store
addDevice_read(st, device, draws) ==
    [devices |-> getDevices(st),
     newDevice |-> JObj(ObjSet(device.o, K_id, JStr(generateUUID(draws))))]

\* the write of addDevice made on the collection as it is stored at the time
\* of the write
addDevice_write_Reread(st, c) ==
    setItem(st, DEVICES_STORAGE_KEY, JSONstringify(JArr(Append(getDevices(st), c.newDevice))))

\* the write of addDevice: the devices it has read and the new one
addDevice_write(st, c) ==
    setItem(st, DEVICES_STORAGE_KEY, JSONstringify(JArr(Append(c.devices, c.newDevice))))

\* the call of setActiveDevice(newDevice.id) of addDevice
addDevice_activate(st, c) == setActiveDevice(st, GetProp(c.newDevice, K_id).s)

\* the devices the two calls add
RaceDevices ==
    <<DeviceFields(<<"G", "a", "t", "e">>, <<"+", "1", "5">>, <<"1", "2", "3", "4">>),
        DeviceFields(<<"D", "o", "o", "r">>, <<"+", "1", "6">>, <<"1", "2", "3", "4">>)>>

\* a call of addDevice(device) not started yet
IdleCall(device) ==
    [pc |-> "idle", device |-> device, devices |-> << >>, newDevice |-> JNull,
     other |-> "idle"]

InitRace ==
    /\ store \in {EmptyStore,
                  setItem(setItem(EmptyStore, DEVICES_STORAGE_KEY, OneDevice),
                          ACTIVE_DEVICE_KEY, <<"d", "1">>)}
    /\ last = InitLast
    /\ backupFile = NoBackupFile
    /\ calls = 0
    /\ migrated = 0
    /\ inflight = [calls |-> <<IdleCall(RaceDevices[1]), IdleCall(RaceDevices[2])>>]

\* inflight with call c at position pc, r being what it now holds
Moved(c, pc, r) ==
    [inflight EXCEPT !.calls[c] = [r EXCEPT !.pc = pc]]

\* call c reads the collection; it notes where the other call is
AddDeviceRead(c) ==
    /\ inflight.calls[c].pc = "idle"
    /\ \E draws \in RandomDraws :
          \E r \in {addDevice_read(store, inflight.calls[c].device, draws)} :
              inflight' = Moved(c, "read",
                                [inflight.calls[c] EXCEPT !.devices = r.devices,
                                                          !.newDevice = r.newDevice,
                                                          !.other = inflight.calls[3 - c].pc])
    /\ UNCHANGED <<store, last, backupFile, calls, migrated>>

\* call c writes the collection
AddDeviceWrite(c) ==
    /\ inflight.calls[c].pc = "read"
    /\ store' = addDevice_write(store, inflight.calls[c])
    /\ inflight' = Moved(c, IF Len(inflight.calls[c].devices) = 0 THEN "written" ELSE "done",
                         inflight.calls[c])
    /\ UNCHANGED <<last, backupFile, calls, migrated>>

\* call c, which has read an empty collection, makes its device the active one
AddDeviceActivate(c) ==
    /\ inflight.calls[c].pc = "written"
    /\ store' = addDevice_activate(store, inflight.calls[c])
    /\ inflight' = Moved(c, "done", inflight.calls[c])
    /\ UNCHANGED <<last, backupFile, calls, migrated>>

RaceRead == \E c \in 1..2 : AddDeviceRead(c)
RaceWrite == \E c \in 1..2 : AddDeviceWrite(c)
RaceActivate == \E c \in 1..2 : AddDeviceActivate(c)

NextRace == RaceRead \/ RaceWrite \/ RaceActivate

SpecRace == InitRace /\ [][NextRace]_vars

\* both calls have completed
BothDone == \A c \in 1..2 : inflight.calls[c].pc = "done"

\* the device call c has added is in the stored collection
Stored(c) ==
    \E i \in 1..Len(getDevices(store)) : getDevices(store)[i] = inflight.calls[c].newDevice

\* a call has read the collection after the other call had read it and before
\* the other call had written it
Raced == \E c \in 1..2 : inflight.calls[c].other = "read"

\* each call was awaited before the next was made
Awaited == \A c \in 1..2 : inflight.calls[c].other \in {"idle", "done"}

\* C24: when the second addDevice reads gsm_devices before the first has
\* written it, the collection ends with exactly one of the two new devices
\* (the last write wins); when each call is awaited before the next, it ends
\* with both
C24_LastWriteWins ==
    BothDone =>
        /\ Raced => (Stored(1) # Stored(2))
        /\ Awaited => (Stored(1) /\ Stored(2))

\* both calls have completed after a race, and the device of the first is lost
C24_Witness == BothDone /\ Raced /\ ~Stored(1) /\ Stored(2)


(***************************************************************************)
(* DeviceProvider: the active device in memory and the legacy partitions   *)
(***************************************************************************)
\* the device-scoped log key of a device
DeviceLogsKey(deviceId) == <<"l", "o", "g", "s", "_">> \o deviceId

\* the copy of the value of one key under another key, made only if the
\* source exists and the target does not exist yet; the source is kept
CopyIfAbsent(st, from, to) ==
    IF getItem(st, to) # JNull \/ getItem(st, from) = JNull THEN st
    ELSE setItem(st, to, getItem(st, from).s)

\* migrateLegacyUsers(deviceId): copy of the legacy list into the slot of the
\* device, only if the slot does not exist yet
migrateLegacyUsers(st, deviceId) == CopyIfAbsent(st, USERS_KEY, DeviceUsersKey(deviceId))

\* migrateLegacyLogs(deviceId): copy of the legacy entries into the partition
\* of the device, only if the partition does not exist yet
migrateLegacyLogs(st, deviceId) == CopyIfAbsent(st, LOGS_KEY, DeviceLogsKey(deviceId))

\* the effect on [activeDevice] of the provider, activeDevice being set
activeDeviceEffect(st, activeDevice) ==
    migrateLegacyLogs(migrateLegacyUsers(st, GetProp(activeDevice, K_id).s),
                      GetProp(activeDevice, K_id).s)

\* two registered devices
TwoDevices ==
    JArr(<<JObj(ObjSet(DeviceFields(<<"G", "a", "t", "e">>, <<"+", "1", "5">>, <<"1", "2", "3",
        "4">>).o, K_id, JStr(<<"d", "1">>))),
           JObj(ObjSet(DeviceFields(<<"D", "o", "o", "r">>, <<"+", "1", "6">>, <<"1", "2", "3",
               "4">>).o, K_id, JStr(<<"d", "2">>)))>>)

\* the legacy log entries of the version before devices
OldLogs == JArr(<<LogEntry(<<"S", "e", "t", "u", "p">>, <<"S", "a", "v", "e", "d">>, TRUE)>>)

\* the stores of an installation upgraded to several devices: no device-scoped
\* partition exists yet
ProviderStores ==
    {WithKey(WithKey(WithKey(setItem(EmptyStore, DEVICES_STORAGE_KEY, JSONstringify(TwoDevices)),
                             ACTIVE_DEVICE_KEY, a),
                     USERS_KEY, users),
             LOGS_KEY, logs) :
        a \in {JNull, JStr(<<"d", "1">>), JStr(<<"d", "2">>)},
        users \in {JNull, JStr(JSONstringify(OldUsers)), JStr(JSONstringify(OldStep3Users))},
        logs \in {JNull, JStr(JSONstringify(OldLogs))}}

\* the provider as constructed: useState([]), useState(null); effect tells
\* that the effect on [activeDevice] is still to run
InitProvider ==
    /\ store \in ProviderStores
    /\ last = InitLast
    /\ backupFile = NoBackupFile
    /\ calls = 0
    /\ migrated = 0
    /\ inflight = [calls |-> << >>, devices |-> << >>, activeDevice |-> JNull,
                   effect |-> FALSE]

\* loadDevices of the provider (on mount and as refreshDevices)
ProviderLoadDevices ==
    /\ ~inflight.effect
    /\ \E draws \in RandomDraws :
          \E r \in {loadDevices(store, draws)} :
              /\ store' = r.store
              /\ inflight' = [inflight EXCEPT !.devices = getDevices(r.store),
                                              !.activeDevice = getActiveDevice(r.store),
                                              !.effect = getActiveDevice(r.store) # JNull]
    /\ last' = [op |-> "loadDevices", arg |-> JNull, ret |-> JNull, pre |-> store]
    /\ UNCHANGED <<backupFile, calls, migrated>>

\* setActiveDeviceById(device.id), device being one of the devices shown
ProviderSetActiveDeviceById ==
    /\ ~inflight.effect
    /\ \E i \in 1..Len(inflight.devices) :
          /\ store' = setActiveDevice(store, GetProp(inflight.devices[i], K_id).s)
          /\ inflight' = [inflight EXCEPT !.activeDevice = inflight.devices[i],
                                          !.effect = TRUE]
          /\ last' = [op |-> "setActiveDeviceById", arg |-> GetProp(inflight.devices[i], K_id),
                      ret |-> JNull, pre |-> store]
    /\ UNCHANGED <<backupFile, calls, migrated>>

\* the effect on [activeDevice], run after activeDevice was set to a device
ProviderEffect ==
    /\ inflight.effect
    /\ store' = activeDeviceEffect(store, inflight.activeDevice)
    /\ inflight' = [inflight EXCEPT !.effect = FALSE]
    /\ last' = [op |-> "effect", arg |-> GetProp(inflight.activeDevice, K_id),
                ret |-> JNull, pre |-> store]
    /\ UNCHANGED <<backupFile, calls, migrated>>

NextProvider == ProviderLoadDevices \/ ProviderSetActiveDeviceById \/ ProviderEffect

SpecProvider == InitProvider /\ [][NextProvider]_vars

\* the devices whose partition under the keys Key(id) exists
Partitions(st, Key(_)) == {id \in {<<"d", "1">>, <<"d", "2">>} : getItem(st, Key(id)) # JNull}

\* C25: the legacy user list and the legacy log entries are copied into the
\* partition of at most one device (the first activated), never into both
C25_LegacyMigratedToOneDevice ==
    /\ Cardinality(Partitions(store, DeviceUsersKey)) <= 1
    /\ Cardinality(Partitions(store, DeviceLogsKey)) <= 1


(***************************************************************************)
(* Relay settings screen (app/step4.tsx)                                   *)
(***************************************************************************)
\* the fields of the screen as useState makes them
Step4_initial ==
    [unitNumber |-> << >>, password |-> << >>, relaySettings |-> DefaultRelaySettings]

\* loadData: the fields after the setters it reaches; JSON.parse of a value
\* that is not JSON throws into the catch, after the other two setters
Step4_loadData(st, f) ==
    Let(getItem(st, K_relaySettings), LAMBDA savedRelaySettings :
        [unitNumber |-> IF Truthy(getItem(st, K_unitNumber))
                        THEN getItem(st, K_unitNumber).s ELSE f.unitNumber,
         password |-> IF Truthy(getItem(st, K_password))
                      THEN getItem(st, K_password).s ELSE f.password,
         relaySettings |-> IF Truthy(savedRelaySettings) /\ JSONparse(savedRelaySettings.s).ok
                           THEN JSONparse(savedRelaySettings.s).v ELSE f.relaySettings])

\* saveToLocalStorage, relaySettings being the value of the render the
\* function was made in
Step4_saveToLocalStorage(st, relaySettings) ==
    markCompleted(setItem(st, K_relaySettings, JSONstringify(relaySettings)), <<"s", "t", "e",
        "p", "4">>).store

\* the details logged for a GOT command
LatchDetails(latchTime) ==
    IF latchTime = <<"0", "0", "0">> THEN <<"S", "e", "t", " ", "r", "e", "l", "a", "y", " ",
        "t", "o", " ", "m", "o", "m", "e", "n", "t", "a", "r", "y", " ", "m", "o", "d", "e",
        " ", "(", "p", "u", "l", "s", "e", ")">>
    ELSE IF latchTime = <<"9", "9", "9">> THEN <<"S", "e", "t", " ", "r", "e", "l", "a", "y",
        " ", "t", "o", " ", "t", "o", "g", "g", "l", "e", " ", "m", "o", "d", "e", " ", "(",
        "s", "t", "a", "y", "s", " ", "O", "N", " ", "u", "n", "t", "i", "l", " ", "n", "e",
        "x", "t", " ", "c", "a", "l", "l", ")">>
    ELSE <<"S", "e", "t", " ", "r", "e", "l", "a", "y", " ", "t", "o", " ", "c", "l", "o", "s",
        "e", " ", "f", "o", "r", " ">> \o DigitsOf(NumOf(LeadingDigits(latchTime))) \o <<" ",
        "s", "e", "c", "o", "n", "d", "s">>

\* sendSMS(command) of the relay-settings screen: the store after its log
Step4_sendSMS(st, f, command, linking) ==
    IF f.unitNumber = << >>
    THEN addLog(st, <<"R", "e", "l", "a", "y", " ", "S", "e", "t", "t", "i", "n", "g", "s">>,
        <<"F", "a", "i", "l", "e", "d", ":", " ", "G", "S", "M", " ", "r", "e", "l", "a", "y",
        " ", "n", "u", "m", "b", "e", "r", " ", "n", "o", "t", " ", "s", "e", "t">>, FALSE)
    ELSE IF linking = "unsupported"
    THEN addLog(st, <<"R", "e", "l", "a", "y", " ", "S", "e", "t", "t", "i", "n", "g", "s">>,
        <<"F", "a", "i", "l", "e", "d", ":", " ", "S", "M", "S", " ", "n", "o", "t", " ", "a",
        "v", "a", "i", "l", "a", "b", "l", "e", " ", "o", "n", " ", "d", "e", "v", "i", "c",
        "e">>, FALSE)
    ELSE IF linking = "error"
    THEN addLog(st, <<"R", "e", "l", "a", "y", " ", "S", "e", "t", "t", "i", "n", "g", "s">>,
        <<"E", "r", "r", "o", "r", ":", " ">> \o LinkingErrorMessage, FALSE)
    ELSE IF Includes(command, <<"A", "U", "T">>)
    THEN addLog(st, <<"A", "c", "c", "e", "s", "s", " ", "C", "o", "n", "t", "r", "o", "l">>,
        <<"S", "e", "t", " ", "r", "e", "l", "a", "y", " ", "t", "o", " ", "a", "l", "l", "o",
        "w", " ", "o", "n", "l", "y", " ", "a", "u", "t", "h", "o", "r", "i", "z", "e", "d",
        " ", "c", "a", "l", "l", "e", "r", "s">>, TRUE)
    ELSE IF Includes(command, <<"A", "L", "L">>)
    THEN addLog(st, <<"A", "c", "c", "e", "s", "s", " ", "C", "o", "n", "t", "r", "o", "l">>,
        <<"S", "e", "t", " ", "r", "e", "l", "a", "y", " ", "t", "o", " ", "a", "l", "l", "o",
        "w", " ", "a", "l", "l", " ", "c", "a", "l", "l", "e", "r", "s">>, TRUE)
    ELSE IF Includes(command, <<"G", "O", "T">>)
    THEN addLog(st, <<"R", "e", "l", "a", "y", " ", "T", "i", "m", "i", "n", "g">>,
        LatchDetails(GetProp(f.relaySettings, K_latchTime).s), TRUE)
    ELSE st

\* the command of setAccessControl(type)
AccessCommand(password, type) ==
    IF type = <<"A", "L", "L">> THEN password \o <<"A", "L", "L", "#">> ELSE password \o <<"A",
        "U", "T", "#">>

\* { ...prev, [k]: v } of the functional updates of relaySettings
RelayWith(prev, k, v) == JObj(ObjSet(IF prev.t = "obj" THEN prev.o ELSE << >>, k, JStr(v)))

\* setAccessControl(type): the update of relaySettings is queued for the next
\* render, sendSMS and saveToLocalStorage are the functions of this render
setAccessControl(st, f, type, linking) ==
    [store |-> Step4_saveToLocalStorage(
                   Step4_sendSMS(st, f, AccessCommand(f.password, type), linking),
                   f.relaySettings),
     fields |-> [f EXCEPT !.relaySettings = RelayWith(f.relaySettings, K_accessControl, type)]]

\* setLatchTime()
setLatchTime(st, f, linking) ==
    [store |-> Step4_saveToLocalStorage(
                   Step4_sendSMS(st, f,
                       f.password \o <<"G", "O", "T">>
                           \o PadStart3(GetProp(f.relaySettings, K_latchTime).s) \o <<"#">>,
                       linking),
                   f.relaySettings),
     fields |-> f]

\* handleLatchTimeChange(text)
handleLatchTimeChange(f, text) ==
    [f EXCEPT !.relaySettings = RelayWith(f.relaySettings, K_latchTime,
                                          SliceTo(OnlyDigits(text), 3))]

\* the stores the screen is opened on
RelayStores ==
    {WithKey(WithKey(WithKey(EmptyStore, K_unitNumber, u), K_password, p), K_relaySettings, r) :
        u \in {JNull, JStr(<<"+", "1", "5">>)}, p \in {JNull, JStr(<<"1", "2", "3", "4">>)},
            r \in LegacyRelaySettings}

\* the screen as constructed; loaded tells that loadData has run
InitRelay ==
    /\ store \in RelayStores
    /\ last = InitLast
    /\ backupFile = NoBackupFile
    /\ calls = 0
    /\ migrated = 0
    /\ inflight = [calls |-> << >>, fields |-> Step4_initial, loaded |-> FALSE]

\* the screen gets the focus
LoadData ==
    /\ ~inflight.loaded
    /\ inflight' = [inflight EXCEPT !.fields = Step4_loadData(store, inflight.fields),
                                    !.loaded = TRUE]
    /\ last' = [op |-> "loadData", arg |-> JNull, ret |-> JNull, pre |-> store]
    /\ UNCHANGED <<store, backupFile, calls, migrated>>

AccessTypes == {<<"A", "U", "T">>, <<"A", "L", "L">>}

\* one of the two access-control buttons is pressed
SetAccessControl ==
    /\ inflight.loaded
    /\ \E type \in AccessTypes, linking \in Linking :
          \E r \in {setAccessControl(store, inflight.fields, type, linking)} :
              /\ store' = r.store
              /\ inflight' = [inflight EXCEPT !.fields = r.fields]
              /\ last' = [op |-> "setAccessControl",
                          arg |-> [type |-> type, linking |-> linking],
                          ret |-> JNull, pre |-> store]
    /\ UNCHANGED <<backupFile, calls, migrated>>

\* the latch-time button is pressed
SetLatchTime ==
    /\ inflight.loaded
    /\ \E linking \in Linking :
          \E r \in {setLatchTime(store, inflight.fields, linking)} :
              /\ store' = r.store
              /\ inflight' = [inflight EXCEPT !.fields = r.fields]
              /\ last' = [op |-> "setLatchTime", arg |-> [linking |-> linking],
                          ret |-> JNull, pre |-> store]
    /\ UNCHANGED <<backupFile, calls, migrated>>

TypedLatchTimes == {<<"5">>, <<"9", "a", "9", "9">>}

\* the latch time is typed
HandleLatchTimeChange ==
    /\ inflight.loaded
    /\ \E text \in TypedLatchTimes :
          /\ inflight' = [inflight EXCEPT !.fields = handleLatchTimeChange(inflight.fields, text)]
          /\ last' = [op |-> "handleLatchTimeChange", arg |-> [text |-> text],
                      ret |-> JNull, pre |-> store]
    /\ UNCHANGED <<store, backupFile, calls, migrated>>

NextRelay == LoadData \/ SetAccessControl \/ SetLatchTime \/ HandleLatchTimeChange

SpecRelay == InitRelay /\ [][NextRelay]_vars

\* the stored relaySettings, parsed (undefined when absent or not JSON)
StoredRelaySettings(st) ==
    IF Truthy(getItem(st, K_relaySettings)) /\ JSONparse(getItem(st, K_relaySettings).s).ok
    THEN JSONparse(getItem(st, K_relaySettings).s).v ELSE JUndefined

\* C28: after setAccessControl(type) has made its storage writes, the stored
\* relaySettings has accessControl equal to the type chosen
C28_StoredAccessControlIsChosen ==
    last.op = "setAccessControl" =>
        GetProp(StoredRelaySettings(store), K_accessControl) = JStr(last.arg.type)


(***************************************************************************)
(* DeviceProvider step by step: loadDevices and setActiveDeviceById in     *)
(* flight                                                                  *)
(***************************************************************************)
\* a behaviour makes at most MaxSwitches calls of setActiveDeviceById
MaxSwitches == 1

\* migrateFromLegacyStorage up to its call of addDevice: the device it is
\* going to add, or null when it returns false before
migrate_device(st) ==
    Let(getItem(st, K_unitNumber), LAMBDA unitNumber :
    Let(getItem(st, K_password), LAMBDA password :
    Let(getItem(st, K_relaySettings), LAMBDA relaySettingsStr :
        IF Len(getDevices(st)) > 0 THEN JNull
        ELSE IF ~Truthy(unitNumber) THEN JNull
        ELSE IF ~Truthy(relaySettingsStr)
        THEN LegacyDevice(unitNumber, password, DefaultRelaySettings)
        ELSE IF ~JSONparse(relaySettingsStr.s).ok THEN JNull
        ELSE LegacyDevice(unitNumber, password, JSONparse(relaySettingsStr.s).v))))

\* the two reads of loadDevices after the migration
loadDevices_read(st) == [allDevices |-> getDevices(st), currentActive |-> getActiveDevice(st)]

\* the stores the provider is mounted on
LoadStores ==
    {WithKey(WithKey(EmptyStore, K_unitNumber, u), K_relaySettings, r) :
        u \in {JNull, JStr(<<"+", "1", "5">>)}, r \in {JNull, JStr(Relay_Custom)}}
    \cup {setItem(setItem(EmptyStore, DEVICES_STORAGE_KEY, JSONstringify(TwoDevices)),
                  ACTIVE_DEVICE_KEY, <<"d", "1">>)}

\* a call of loadDevices not started yet
IdleLoad ==
    [pc |-> "idle", device |-> JNull, devices |-> << >>, newDevice |-> JNull,
     allDevices |-> << >>, currentActive |-> JNull]

\* no call of setActiveDeviceById is in flight
IdleSwitch == [pc |-> "idle", deviceId |-> << >>, devices |-> << >>]

\* the provider as constructed, its two calls of loadDevices (on mount and as
\* refreshDevices) not started; start is the store it is mounted on
InitLoad ==
    /\ store \in LoadStores
    /\ last = InitLast
    /\ backupFile = NoBackupFile
    /\ calls = 0
    /\ migrated = 0
    /\ inflight = [calls |-> <<IdleLoad, IdleLoad>>, switch |-> IdleSwitch, switches |-> 0,
                   devices |-> << >>, activeDevice |-> JNull, start |-> store]

\* call c of loadDevices enters migrateFromLegacyStorage and makes its tests
LoadCheck(c) ==
    /\ inflight.calls[c].pc = "idle"
    /\ inflight' = Moved(c, IF migrate_device(store) = JNull THEN "migrated" ELSE "adding",
                         [inflight.calls[c] EXCEPT !.device = migrate_device(store)])
    /\ UNCHANGED <<store, last, backupFile, calls, migrated>>

\* addDevice(device) of call c reads the collection
LoadAddRead(c) ==
    /\ inflight.calls[c].pc = "adding"
    /\ \E draws \in RandomDraws :
          \E r \in {addDevice_read(store, inflight.calls[c].device, draws)} :
              inflight' = Moved(c, "read", [inflight.calls[c] EXCEPT !.devices = r.devices,
                                                                     !.newDevice = r.newDevice])
    /\ UNCHANGED <<store, last, backupFile, calls, migrated>>

\* addDevice(device) of call c writes the collection
LoadAddWrite(c) ==
    /\ inflight.calls[c].pc = "read"
    /\ store' = addDevice_write(store, inflight.calls[c])
    /\ inflight' = Moved(c, IF Len(inflight.calls[c].devices) = 0 THEN "written" ELSE "migrated",
                         inflight.calls[c])
    /\ UNCHANGED <<last, backupFile, calls, migrated>>

\* addDevice(device) of call c makes the device the active one
LoadAddActivate(c) ==
    /\ inflight.calls[c].pc = "written"
    /\ store' = addDevice_activate(store, inflight.calls[c])
    /\ inflight' = Moved(c, "migrated", inflight.calls[c])
    /\ UNCHANGED <<last, backupFile, calls, migrated>>

\* call c reads the devices and the active device
LoadRead(c) ==
    /\ inflight.calls[c].pc = "migrated"
    /\ \E r \in {loadDevices_read(store)} :
          inflight' = Moved(c, "loaded", [inflight.calls[c] EXCEPT
                                              !.allDevices = r.allDevices,
                                              !.currentActive = r.currentActive])
    /\ UNCHANGED <<store, last, backupFile, calls, migrated>>

\* call c sets devices and activeDevice of the provider and completes
LoadSet(c) ==
    /\ inflight.calls[c].pc = "loaded"
    /\ inflight' = [Moved(c, "done", inflight.calls[c]) EXCEPT
                        !.devices = inflight.calls[c].allDevices,
                        !.activeDevice = inflight.calls[c].currentActive]
    /\ UNCHANGED <<store, last, backupFile, calls, migrated>>

\* setActiveDeviceById(device.id), device being one of the devices shown:
\* the pointer is written; devices is the value of the render of the call
SwitchWrite ==
    /\ inflight.switch.pc = "idle"
    /\ inflight.switches < MaxSwitches
    /\ \E i \in 1..Len(inflight.devices) :
          /\ store' = setActiveDevice(store, GetProp(inflight.devices[i], K_id).s)
          /\ inflight' = [inflight EXCEPT
                              !.switch = [pc |-> "written",
                                          deviceId |-> GetProp(inflight.devices[i], K_id).s,
                                          devices |-> inflight.devices],
                              !.switches = @ + 1]
    /\ UNCHANGED <<last, backupFile, calls, migrated>>

\* setActiveDeviceById after its await: devices.find, setActiveDevice(device)
SwitchSet ==
    /\ inflight.switch.pc = "written"
    /\ \E device \in {FindDevice(inflight.switch.devices, JStr(inflight.switch.deviceId))} :
          inflight' = [inflight EXCEPT
                           !.switch = IdleSwitch,
                           !.activeDevice = IF Truthy(device) THEN device ELSE @]
    /\ last' = [op |-> "setActiveDeviceById", arg |-> JStr(inflight.switch.deviceId),
                ret |-> JUndefined, pre |-> store]
    /\ UNCHANGED <<store, backupFile, calls, migrated>>

LoadDevicesCheck == \E c \in 1..2 : LoadCheck(c)
LoadDevicesAddRead == \E c \in 1..2 : LoadAddRead(c)
LoadDevicesAddWrite == \E c \in 1..2 : LoadAddWrite(c)
LoadDevicesAddActivate == \E c \in 1..2 : LoadAddActivate(c)
LoadDevicesRead == \E c \in 1..2 : LoadRead(c)
LoadDevicesSet == \E c \in 1..2 : LoadSet(c)

NextLoad ==
    \/ LoadDevicesCheck \/ LoadDevicesAddRead \/ LoadDevicesAddWrite
    \/ LoadDevicesAddActivate \/ LoadDevicesRead \/ LoadDevicesSet
    \/ SwitchWrite \/ SwitchSet

SpecLoad == InitLoad /\ [][NextLoad]_vars

\* no call of the provider is in flight
Quiet ==
    /\ \A c \in 1..2 : inflight.calls[c].pc \in {"idle", "done"}
    /\ inflight.switch.pc = "idle"

MadeFromLegacy(device, st) ==
    /\ migrate_device(st) # JNull
    /\ device = JObj(ObjSet(migrate_device(st).o, K_id, GetProp(device, K_id)))

\* C30: when both calls of loadDevices have completed on a store that had
\* the legacy keys and no device, the collection holds exactly one device,
\* made from the legacy keys, and it is the active device
C30_LegacyDeviceMigratedOnce ==
    (/\ \A c \in 1..2 : inflight.calls[c].pc = "done"
     /\ migrate_device(inflight.start) # JNull) =>
        /\ Len(getDevices(store)) = 1
        /\ MadeFromLegacy(getDevices(store)[1], inflight.start)
        /\ getActiveDevice(store) = getDevices(store)[1]

=============================================================================
